---- MODULE Spec2Model ----
(***************************************************************************)
(* Model of the framed transactional link protocols of pyFIS:              *)
(*   - pyfis/krone/k9000_rs485.py  Krone9000RS485Controller                *)
(*       (XOR checksum, length field, chunking, ACK/BUSY/NACK retry loop)  *)
(*   - pyfis/aegmis/mis1_protocol.py  MIS1Protocol                         *)
(*       (byte stuffing, additive checksum, STX..ETX reader)               *)
(*   - pyfis/aegmis/mis2_protocol.py  MIS2Protocol                         *)
(*       (byte stuffing with 0x17, checksum of bytes plus one, telegram)   *)
(*   - pyfis/krone/k8200.py  Krone8200Display (enquiry, WABT, EOT)         *)
(*   - pyfis/krone/k9000_fbk.py  Krone9000FBK (_rle, value table result)   *)
(*   - pyfis/ibis/ibis_protocol.py  wrap_telegram, vdv_hex                 *)
(*   - pyfis/microsyst/migra.py  MigraTCP (command queue)                  *)
(*   - pyfis/lawo/mono_protocol.py  MONOProtocol.prepare_frame             *)
(*   - pyfis/omega/rs485.py  OmegaRS485Controller.d_set_module_data        *)
(* Bytes are integers 0..255.  A port is modelled by what is written to it *)
(* (a log of frames) and by the bytes the device delivers before the read  *)
(* timeout expires (pyserial: read(n) returns the first n bytes that have  *)
(* arrived, fewer when the timeout strikes first; utils/tcp_serial.py:     *)
(* read(n) is socket.recv(n), which hands over what has arrived so far, at *)
(* most n bytes, the rest on later reads).                                 *)
(* Python exceptions are modelled by their class names.                    *)
(***************************************************************************)
EXTENDS Integers, Sequences, FiniteSets, TLC

VARIABLES
    \* ---- Krone9000RS485Controller.send_command ----
    pc,         \* position of the call: idle, write, check_status, read_response, done
    address,    \* self.address
    data,       \* [command] + parameters
    response,   \* argument response
    ack,        \* argument ack
    block,      \* argument block
    control,    \* local control
    chunk_id,   \* outer loop variable (0-based)
    retry,      \* inner loop variable
    written,    \* every frame handed to port.write, in order
    statuses,   \* every check_status read: [chunk, reply, nwritten]
    sleeps,     \* number of time.sleep(RETRY_INTERVAL) calls
    rx,         \* the bytes the device delivered to read_response
    rx_caps,    \* how many bytes the port handed over at most per read
    result,     \* [kind, exc, msg, payload, consumed]: how the call ended
    \* ---- MIS1Protocol ----
    mis_pc,       \* position: idle, applied, sent, sent2, read, done
    mis_address,  \* self.address
    use_rts,      \* self.use_rts
    mis_data,     \* argument data of the last send_raw_telegram
    mis_ack,      \* argument ack of read_response
    port_log,     \* what happened on the port: setRTS and write events, in order
    mis_rx,       \* the bytes the display delivered to read_response
    mis_result,   \* [kind, exc, response, consumed]: how read_response ended
    codec,        \* [p, escaped, unescaped]: one application of escape/unescape
    calc,         \* one application of unescape, of MIS2 escape or of the checksums
    \* ---- MIS1Protocol.read_response, one port.read(1) at a time ----
    reader,       \* [pc, start, escape_active, response, exc]
    \* ---- Krone8200Display.send_command ----
    k82,          \* [pc, op, phase, rx_address, message, wait_count, resent, log,
                  \*  reads, result]
    \* ---- two callers of one Krone9000RS485Controller ----
    conc,         \* [pc, retry, line, stolen, exc], pc, retry and exc per caller
    \* ---- IBISProtocol and Krone8200Display: pure functions ----
    fn,           \* [op, arg, out, back]: one application
    \* ---- MigraTCP ----
    migra,        \* [command_queue_enabled, command_queue, sent, calls, last, n]
    \* ---- Krone9000FBK.set_fbm_value_table ----
    fbk           \* [pc, timeout, tries, reads, result]

kvars == <<pc, address, data, response, ack, block, control, chunk_id, retry,
           written, statuses, sleeps, rx, rx_caps, result>>

mvars == <<mis_pc, mis_address, use_rts, mis_data, mis_ack, port_log, mis_rx,
           mis_result, codec, calc>>

xvars == <<reader, k82, conc, fn>>

yvars == <<migra, fbk>>

vars == <<kvars, mvars, xvars, yvars>>

(***************************************************************************)
(* Bounds of the model                                                     *)
(***************************************************************************)
\* longest explicitly enumerated parameter list of send_command
MaxParams == 2
\* byte positions at the head of a reply that the device model corrupts or cuts
MutWindow == 10
\* longest payload handed to MIS1Protocol.send_raw_telegram and escape
MaxPayloadLen == 3

\* longest run of line noise in front of a telegram
MaxNoise == 2
\* most bytes the line delivers between a start marker and its end marker
MaxBody == 3

(***************************************************************************)
(* Byte helpers                                                            *)
(***************************************************************************)
Min(a, b) == IF a < b THEN a ELSE b

Max(a, b) == IF a > b THEN a ELSE b

RECURSIVE XorBits(_, _, _)
XorBits(a, b, n) ==
    IF n = 0 THEN 0
    ELSE (((a % 2) + (b % 2)) % 2) + (2 * XorBits(a \div 2, b \div 2, n - 1))

\* a ^ b on bytes
Xor(a, b) == XorBits(a, b, 8)

RECURSIVE OrBits(_, _, _)
OrBits(a, b, n) ==
    IF n = 0 THEN 0
    ELSE Max(a % 2, b % 2) + (2 * OrBits(a \div 2, b \div 2, n - 1))

\* a | b on bytes
Or(a, b) == OrBits(a, b, 8)

RECURSIVE AndBits(_, _, _)
AndBits(a, b, n) ==
    IF n = 0 THEN 0
    ELSE ((a % 2) * (b % 2)) + (2 * AndBits(a \div 2, b \div 2, n - 1))

\* a & b on bytes
And(a, b) == AndBits(a, b, 8)

\* lst[:n]
Take(lst, n) == SubSeq(lst, 1, Min(Max(n, 0), Len(lst)))

\* lst[n:]
Drop(lst, n) == SubSeq(lst, Min(Max(n, 0), Len(lst)) + 1, Len(lst))

\* port.read(n) of pyserial on the bytes that arrive before the timeout:
\* the first n of them, fewer (possibly none) when fewer arrive; a size
\* n <= 0 reads nothing.
PortRead(stream, n) == Take(stream, n)

\* TcpSerialPort.read(n) = socket.recv(n) when only cap bytes have arrived
PortReadUpTo(stream, n, cap) == Take(stream, Min(n, cap))

\* d with bit b of its byte i flipped
FlipBit(d, i, b) == [d EXCEPT ![i] = Xor(d[i], 2 ^ b)]

RECURSIVE SeqsUpTo(_, _)
SeqsUpTo(S, n) ==
    IF n = 0 THEN {<<>>}
    ELSE LET shorter == SeqsUpTo(S, n - 1)
         IN  shorter \cup {Append(s, b) : s \in {t \in shorter : Len(t) = n - 1}, b \in S}

(***************************************************************************)
(* Krone9000RS485Controller: constants                                     *)
(***************************************************************************)
FLAG_ACK == 128

CTRL_READ == 1

CTRL_WRITE_SINGLE == 2

CTRL_WRITE_BLOCK == 4

STATUS_ACK == 6

STATUS_BUSY == 16

STATUS_NACK == 21

MAX_CHUNK_SIZE == 128

RETRY_COUNT == 10

\* BOARD_ID of the subclass Krone9000FBK
BOARD_ID == 178

(***************************************************************************)
(* Krone9000RS485Controller: pure parts                                    *)
(***************************************************************************)
\* ceil(a / b)
CeilDiv(a, b) == (a + b - 1) \div b

_chunks_overlapping(lst, n) ==
    [k \in 1..CeilDiv(Len(lst), n) |->
        SubSeq(lst, (k - 1) * n + 1, Min(k * n + 1, Len(lst)))]

\* _chunks(lst, n): lst[i:i + n] for i in range(0, len(lst), n)
_chunks(lst, n) ==
    [k \in 1..CeilDiv(Len(lst), n) |->
        SubSeq(lst, (k - 1) * n + 1, Min(k * n, Len(lst)))]

\* payload[lo] ^ ... ^ payload[hi] (0 for an empty range), split in halves to
\* keep the evaluation shallow on 134-byte frames: ^ is associative
RECURSIVE XorRange(_, _, _)
XorRange(payload, lo, hi) ==
    IF lo > hi THEN 0
    ELSE IF lo = hi THEN payload[lo]
    ELSE LET mid == (lo + hi) \div 2
         IN  Xor(XorRange(payload, lo, mid), XorRange(payload, mid + 1, hi))

\* checksum = seed; for byte in payload: checksum ^= byte
XorFold(seed, payload) == Xor(seed, XorRange(payload, 1, Len(payload)))

make_checksum_7bit(payload) == XorFold(0, payload) % 128

\* make_checksum: XOR of all bytes, starting from 0x00
make_checksum(payload) == XorFold(0, payload)

\* check_checksum: make_checksum(data[2:-1]) == data[-1]
check_checksum(d) ==
    make_checksum(SubSeq(d, 3, Len(d) - 1)) = d[Len(d)]

\* the control byte computed from the arguments (lines 88-97)
ControlByte(resp, ak, blk) ==
    LET base == IF resp THEN CTRL_READ
                ELSE IF blk THEN CTRL_WRITE_BLOCK ELSE CTRL_WRITE_SINGLE
    IN  IF ak THEN Or(base, FLAG_ACK) ELSE base

\* the frame of one chunk (lines 101-105); cid is the 0-based chunk_id
cmd_bytes(addr, ctrl, cid, chunk) ==
    LET p0 == <<BOARD_ID, addr, 0, ctrl, cid + 1>> \o chunk \o <<0>>
        payload == [p0 EXCEPT ![3] = Len(p0)]
    IN  <<255, 255>> \o payload \o <<make_checksum(payload)>>

check_status_nack_is_busy(reply) ==
    IF reply = <<>> THEN "IndexError"
    ELSE IF reply[1] = STATUS_ACK THEN "True"
    ELSE IF reply[1] = STATUS_BUSY THEN "BusyError"
    ELSE IF reply[1] = STATUS_NACK THEN "BusyError"
    ELSE "CommunicationError"

check_status_lenient(reply) ==
    IF reply = <<>> THEN "IndexError"
    ELSE IF reply[1] = STATUS_BUSY THEN "BusyError"
    ELSE IF reply[1] = STATUS_NACK THEN "NACKError"
    ELSE "True"

\* check_status on the result of port.read(1): what it returns or raises.
\* bytearray(b"")[0] raises IndexError.
check_status(reply) ==
    IF reply = <<>> THEN "IndexError"
    ELSE IF reply[1] = STATUS_ACK THEN "True"
    ELSE IF reply[1] = STATUS_BUSY THEN "BusyError"
    ELSE IF reply[1] = STATUS_NACK THEN "NACKError"
    ELSE "CommunicationError"

status_step_no_raise(outcome, r) ==
    IF outcome = "True" THEN "break"
    ELSE IF outcome = "BusyError"
         THEN IF r >= RETRY_COUNT - 1 THEN "exhausted" ELSE "sleep"
    ELSE "raise"

status_step_one_more(outcome, r) ==
    IF outcome = "True" THEN "break"
    ELSE IF outcome = "BusyError"
         THEN IF r >= RETRY_COUNT THEN "raise" ELSE "sleep"
    ELSE "raise"

\* the try/except/else around check_status (lines 116-124): except BusyError
\* catches BusyError alone; NACKError, CommunicationError and IndexError
\* propagate.  "exhausted" is what a missing raise would do: the inner loop
\* runs out and the next chunk follows.
status_step(outcome, r) ==
    IF outcome = "True" THEN "break"
    ELSE IF outcome = "BusyError"
         THEN IF r >= RETRY_COUNT - 1 THEN "raise" ELSE "sleep"
    ELSE "raise"

Raise(exc, msg, consumed) ==
    [kind |-> "raise", exc |-> exc, msg |-> msg, payload |-> <<>>, consumed |-> consumed]

Return(payload, consumed) ==
    [kind |-> "return", exc |-> "", msg |-> "", payload |-> payload, consumed |-> consumed]

response_payload_keep_trailer(payload) == SubSeq(payload, 3, Len(payload))

\* line 176: payload[2:-1]
response_payload(payload) == SubSeq(payload, 3, Len(payload) - 1)

\* read_response (lines 146-176) on the bytes the device delivers.
\* consumed: the bytes read from the port (the local data, when complete).
\* caps: the most the port hands over to the header read and to the payload
\* read (the two reads of one byte cannot come back short of a byte).
read_response(stream, addr, caps) ==
    LET header == PortReadUpTo(stream, 4, caps.header)
    IN  IF Len(header) # 4
        THEN IF Len(header) = 1 /\ header[1] = STATUS_BUSY
             THEN Raise("BusyError", "", header)
             ELSE IF Len(header) = 1 /\ header[1] = STATUS_NACK
             THEN Raise("NACKError", "", header)
             ELSE Raise("CommunicationError", "Incomplete header", header)
        ELSE IF header[1] # 255 \/ header[2] # 255
        THEN Raise("CommunicationError", "Invalid start sequence", header)
        ELSE IF header[3] # BOARD_ID
        THEN Raise("CommunicationError", "Invalid board ID", header)
        ELSE IF header[4] # addr
        THEN Raise("CommunicationError", "Invalid address", header)
        ELSE
        LET r1 == Drop(stream, 4)
            lenb == PortRead(r1, 1)
        IN  IF lenb = <<>>
            THEN Raise("IndexError", "", header)
            ELSE
            LET length == lenb[1]
                r2 == Drop(r1, 1)
                payload == PortReadUpTo(r2, length - 3, caps.payload)
                r3 == Drop(r2, Len(payload))
                cs == PortRead(r3, 1)
            IN  IF cs = <<>>
                THEN Raise("IndexError", "", header \o lenb \o payload)
                ELSE
                LET d == header \o lenb \o payload \o cs
                IN  IF ~check_checksum(d)
                    THEN Raise("CommunicationError", "Checksum mismatch", d)
                    ELSE Return(response_payload(payload), d)

(***************************************************************************)
(* Krone9000RS485Controller: inputs of the model                           *)
(***************************************************************************)
\* Krone9000FBK (k9000_fbk.py)
FLAG_START_IMMEDIATELY == 128
FLAG_FBM_COMMAND == 64
CMD_SET_BLINKER == 11
CMD_SET_FBM_CODES_ADDR == Or(9, FLAG_FBM_COMMAND)
\* d_set_module_data: modules per set_fbm_codes_addr call
MODULES_PER_CALL == 50

Commands == {CMD_SET_BLINKER, CMD_SET_FBM_CODES_ADDR}

ParamBytes == {0, 165, 255}

Addresses == {1, 2}

\* a long parameter list with varying content
LongParams(n) == [i \in 1..n |-> (i * 7) % 256]

\* data of MAX_CHUNK_SIZE, MAX_CHUNK_SIZE + 1 and 3 * MAX_CHUNK_SIZE bytes
LongParamLists ==
    {LongParams(MAX_CHUNK_SIZE - 1), LongParams(MAX_CHUNK_SIZE),
     LongParams(3 * MAX_CHUNK_SIZE - 1)}

ParameterLists == SeqsUpTo(ParamBytes, MaxParams) \cup LongParamLists

\* module_data of n modules: (address, code) pairs with varying content
Modules(n) == [i \in 1..n |-> <<i, (i * 7) % 256>>]

\* [i for s in chunk for i in s]
Flatten(chunk) ==
    [j \in 1..(2 * Len(chunk)) |->
        IF j % 2 = 1 THEN chunk[(j + 1) \div 2][1] ELSE chunk[j \div 2][2]]

\* one, two, 63 pairs (data of 127 bytes) and 64 pairs (129 bytes)
CodeLists == {Flatten(Modules(n)) : n \in {1, 2, 63, 64}}

\* module lists of one call, of a full call, and of two and three calls
ModuleLists == {Modules(n) : n \in {1, MODULES_PER_CALL, MODULES_PER_CALL + 1,
                                     (2 * MODULES_PER_CALL) + 1}}

\* what port.read(1) returns in check_status: one status byte, or nothing
StatusReplies == {<<STATUS_ACK>>, <<STATUS_BUSY>>, <<STATUS_NACK>>, <<0>>, <<>>}

MutBytes == {0, 3, 255}

MutPositions(f) == (1..Min(MutWindow, Len(f))) \cup ({Len(f) - 1, Len(f)} \cap (1..Len(f)))

\* the bytes of a frame the checksum covers (board id through the trailing
\* 0x00), as far as the device model corrupts them
FlipPositions(f) == (3..Min(MutWindow, Len(f) - 1)) \cup {Len(f) - 1}

\* what the device delivers to read_response, derived from a frame f of the
\* wire format: f itself, f cut short, f with one byte replaced, f with one
\* bit of a covered byte flipped, a lone status byte
RxStreams(f) ==
    {f}
    \cup {FlipBit(f, i, b) : i \in FlipPositions(f), b \in 0..7}
    \cup {Take(f, k) : k \in (0..Min(MutWindow, Len(f))) \cup {Len(f) - 1}}
    \cup {[f EXCEPT ![i] = b] : i \in MutPositions(f), b \in MutBytes}
    \cup {<<STATUS_BUSY>>, <<STATUS_NACK>>}

\* a port that hands over all it is asked for: the 4 bytes of the header
\* and a payload of any length a length byte can announce
NoCaps == [header |-> 4, payload |-> 255]

\* the ways a port splits the header and the payload across reads
ShortReads == [header : 1..4, payload : {1, 2, 255}] \ {NoCaps}

(***************************************************************************)
(* Krone9000RS485Controller.send_command as a state machine                *)
(***************************************************************************)
Running == [kind |-> "running", exc |-> "", msg |-> "", payload |-> <<>>, consumed |-> <<>>]

KroneInit ==
    /\ pc = "idle"
    /\ address \in Addresses
    /\ data = <<>>
    /\ response = FALSE
    /\ ack = FALSE
    /\ block = FALSE
    /\ control = 0
    /\ chunk_id = 0
    /\ retry = 0
    /\ written = <<>>
    /\ statuses = <<>>
    /\ sleeps = 0
    /\ rx = <<>>
    /\ rx_caps = NoCaps
    /\ result = Running

NumChunks == Len(_chunks(data, MAX_CHUNK_SIZE))

too_long_inverted(d, blk) == Len(d) > MAX_CHUNK_SIZE /\ blk = TRUE

\* line 85: len(data) > self.MAX_CHUNK_SIZE and block == False
too_long(d, blk) == Len(d) > MAX_CHUNK_SIZE /\ blk = FALSE

\* lines 78-97: build data, refuse oversized single-block data, pick control
Call(command, parameters, resp, ak, blk) ==
    /\ pc = "idle"
    /\ data' = <<command>> \o parameters
    /\ response' = resp
    /\ ack' = ak
    /\ block' = blk
    /\ IF too_long(data', blk)
       THEN /\ result' = Raise("CommunicationError", "Data too long", <<>>)
            /\ pc' = "done"
            /\ control' = control
       ELSE /\ result' = result
            /\ pc' = "write"
            /\ control' = ControlByte(resp, ak, blk)
    /\ UNCHANGED <<address, chunk_id, retry, written, statuses, sleeps, rx, rx_caps>>
    /\ UNCHANGED <<mvars, xvars, yvars>>

\* leaving the inner loop (break, or range(RETRY_COUNT) used up): the next
\* chunk, or lines 129-132 after the last one
NextChunk ==
    IF chunk_id + 1 < NumChunks
    THEN /\ chunk_id' = chunk_id + 1
         /\ retry' = 0
         /\ pc' = "write"
         /\ result' = result
    ELSE /\ UNCHANGED <<chunk_id, retry>>
         /\ IF response
            THEN /\ pc' = "read_response"
                 /\ result' = result
            ELSE /\ pc' = "done"
                 /\ result' = Return(<<>>, <<>>)

\* Krone9000FBK.set_fbm_codes_addr(codes, immediate) (k9000_fbk.py 248-254)
SetFbmCodesAddr(codes, immediate) ==
    Call(IF immediate THEN Or(CMD_SET_FBM_CODES_ADDR, FLAG_START_IMMEDIATELY)
                      ELSE CMD_SET_FBM_CODES_ADDR,
         codes, FALSE, TRUE, FALSE)

\* Krone9000FBK.d_set_module_data(module_data) (k9000_fbk.py 256-259): the
\* k-th turn of its loop
DSetModuleData(module_data, k) ==
    SetFbmCodesAddr(Flatten(_chunks(module_data, MODULES_PER_CALL)[k]), FALSE)

\* lines 101-111 and the branch of lines 114-126 that follows the write
WriteFrame ==
    /\ pc = "write"
    /\ written' = Append(written,
           cmd_bytes(address, control, chunk_id, _chunks(data, MAX_CHUNK_SIZE)[chunk_id + 1]))
    /\ IF ~response
       THEN IF And(control, FLAG_ACK) # 0
            THEN /\ pc' = "check_status"
                 /\ UNCHANGED <<chunk_id, retry, result>>
            ELSE \* no break: the inner loop goes on
                 IF retry + 1 < RETRY_COUNT
                 THEN /\ retry' = retry + 1
                      /\ UNCHANGED <<pc, chunk_id, result>>
                 ELSE NextChunk
       ELSE NextChunk
    /\ UNCHANGED <<address, data, response, ack, block, control, statuses, sleeps, rx, rx_caps>>
    /\ UNCHANGED <<mvars, xvars, yvars>>

\* lines 116-124: check_status on the device's reply to the frame just written
CheckStatus(reply) ==
    /\ pc = "check_status"
    /\ statuses' = Append(statuses,
           [chunk |-> chunk_id, reply |-> reply, nwritten |-> Len(written)])
    /\ LET outcome == check_status(reply)
           step == status_step(outcome, retry)
       IN  CASE step = "break" -> NextChunk /\ sleeps' = sleeps
             [] step = "sleep" ->
                    /\ sleeps' = sleeps + 1
                    /\ retry' = retry + 1
                    /\ pc' = "write"
                    /\ UNCHANGED <<chunk_id, result>>
             [] step = "raise" ->
                    /\ result' = Raise(outcome, "", reply)
                    /\ pc' = "done"
                    /\ UNCHANGED <<chunk_id, retry, sleeps>>
             [] OTHER -> NextChunk /\ sleeps' = sleeps
    /\ UNCHANGED <<address, data, response, ack, block, control, written, rx, rx_caps>>
    /\ UNCHANGED <<mvars, xvars, yvars>>

\* lines 129-130: return self.read_response()
ReadResponse(stream, caps) ==
    /\ pc = "read_response"
    /\ rx' = stream
    /\ rx_caps' = caps
    /\ result' = read_response(stream, address, caps)
    /\ pc' = "done"
    /\ UNCHANGED <<address, data, response, ack, block, control, chunk_id, retry,
                   written, statuses, sleeps>>
    /\ UNCHANGED <<mvars, xvars, yvars>>

(***************************************************************************)
(* MIS1Protocol: pure parts                                                *)
(***************************************************************************)
RECURSIVE Sum(_)
Sum(d) == IF d = <<>> THEN 0 ELSE Head(d) + Sum(Tail(d))

mis1_checksum_low6(d) == Or(Sum(d) % 64, 128)

\* checksum: (sum of the bytes % 256) | 0x80
mis1_checksum(d) == Or(Sum(d) % 256, 128)

MIS1_RESERVED == {2, 3, 4, 5, 16}

RECURSIVE EscapeWith(_, _)
EscapeWith(reserved, d) ==
    IF d = <<>> THEN <<>>
    ELSE (IF Head(d) \in reserved THEN <<16, Head(d)>> ELSE <<Head(d)>>)
         \o EscapeWith(reserved, Tail(d))

mis1_escape_no_dle(d) == EscapeWith({2, 3, 4, 5}, d)

mis1_escape_no_etx(d) == EscapeWith({2, 4, 5, 16}, d)

\* escape: 0x10 before every byte in (0x02, 0x03, 0x04, 0x05, 0x10)
mis1_escape(d) == EscapeWith(MIS1_RESERVED, d)

\* the loop of unescape, with its local escape_active
RECURSIVE UnescapeFrom(_, _)
UnescapeFrom(d, escape_active) ==
    IF d = <<>> THEN <<>>
    ELSE IF ~escape_active /\ Head(d) = 16
         THEN UnescapeFrom(Tail(d), TRUE)
         ELSE <<Head(d)>> \o UnescapeFrom(Tail(d), FALSE)

\* unescape
mis1_unescape(d) == UnescapeFrom(d, FALSE)

mis1_telegram_sum_escaped(addr, d) ==
    <<4, Or(128, addr), 2>> \o mis1_escape(d) \o <<3>>
        \o <<mis1_checksum(mis1_escape(d) \o <<3>>)>>

\* the telegram of send_raw_telegram (line 99)
mis1_telegram(addr, d) ==
    <<4, Or(128, addr), 2>> \o mis1_escape(d) \o <<3>> \o <<mis1_checksum(d \o <<3>>)>>

PortEvent(op, bytes, level) == [op |-> op, bytes |-> bytes, level |-> level]

\* send_raw_data (lines 88-96) as the events it adds to the port
send_raw_data_no_release(log, d, rts) ==
    IF rts
    THEN log \o <<PortEvent("setRTS", <<>>, 1), PortEvent("write", d, 1)>>
    ELSE Append(log, PortEvent("write", d, 0))

send_raw_data(log, d, rts) ==
    IF rts
    THEN log \o <<PortEvent("setRTS", <<>>, 1), PortEvent("write", d, 1),
                  PortEvent("setRTS", <<>>, 0)>>
    ELSE Append(log, PortEvent("write", d, 0))

MisRaise(consumed) ==
    [kind |-> "raise", exc |-> "CommunicationError", response |-> <<>>,
     consumed |-> consumed]

(***************************************************************************)
(* MIS2Protocol: pure parts                                                *)
(***************************************************************************)
\* the loop of MIS2Protocol.checksum: checksum += byte + 1
RECURSIVE SumPlusOne(_)
SumPlusOne(d) == IF d = <<>> THEN 0 ELSE (Head(d) + 1) + SumPlusOne(Tail(d))

mis2_checksum_plain(d) == Or(Sum(d) % 256, 128)

\* MIS2Protocol.checksum: (sum of (byte + 1) % 256) | 0x80
mis2_checksum(d) == Or(SumPlusOne(d) % 256, 128)

MIS2_RESERVED == {2, 3, 4, 5, 16, 23}

mis2_escape_no_etb(d) == EscapeWith(MIS1_RESERVED, d)

\* MIS2Protocol.escape: 0x10 before every byte in
\* (0x02, 0x03, 0x04, 0x05, 0x10, 0x17)
mis2_escape(d) == EscapeWith(MIS2_RESERVED, d)

\* the telegram of MIS2Protocol.send_raw_telegram
mis2_telegram(addr, d) ==
    <<4, Or(128, addr), 2>> \o mis2_escape(d) \o <<3>> \o <<mis2_checksum(d \o <<3>>)>>

\* MIS2Protocol.send_raw_telegram as the events it adds to the port: RTS is
\* raised, the telegram written, RTS dropped, whatever use_rts is
mis2_send_raw_telegram(log, addr, d) ==
    log \o <<PortEvent("setRTS", <<>>, 1), PortEvent("write", mis2_telegram(addr, d), 1),
             PortEvent("setRTS", <<>>, 0)>>

MisReturn(resp, consumed) ==
    [kind |-> "return", exc |-> "", response |-> resp, consumed |-> consumed]

\* lines 120-124: read single bytes until one is 0x02; i is the number of
\* bytes read so far, stream[i] the current start.  0 when a read times out.
RECURSIVE SkipToStart(_, _)
SkipToStart_strict(stream, i) == IF stream[i] = 2 THEN i ELSE 0

SkipToStart(stream, i) ==
    IF stream[i] = 2 THEN i
    ELSE IF i + 1 > Len(stream) THEN 0
    ELSE SkipToStart(stream, i + 1)

\* lines 128-148: the loop after the start marker; i bytes have been read
RECURSIVE ReadBody(_, _, _, _)
ReadBody(stream, i, escape_active, resp) ==
    IF i + 1 > Len(stream) THEN MisRaise(i)
    ELSE LET byte == stream[i + 1]
         IN  IF ~escape_active
             THEN IF byte = 16 THEN ReadBody(stream, i + 1, TRUE, resp)
                  ELSE IF byte = 3
                  THEN IF i + 2 > Len(stream) THEN MisRaise(i + 1)
                       ELSE MisReturn(resp \o <<3, stream[i + 2]>>, i + 2)
                  ELSE ReadBody(stream, i + 1, FALSE, Append(resp, byte))
             ELSE ReadBody(stream, i + 1, FALSE, Append(resp, byte))

\* read_response (lines 112-148) on the bytes the display delivers, one
\* port.read(1) at a time; consumed counts the bytes read
mis1_read_response(stream) ==
    IF stream = <<>> THEN MisRaise(0)
    ELSE IF stream[1] \in {6, 21} THEN MisReturn(<<stream[1]>>, 1)
    ELSE LET s == SkipToStart(stream, 1)
         IN  IF s = 0 THEN MisRaise(Len(stream))
             ELSE ReadBody(stream, s, FALSE, <<2>>)

(***************************************************************************)
(* MIS1Protocol: inputs of the model                                       *)
(***************************************************************************)
\* STX, ETX, ENQ, DLE and a printable byte
PayloadBytes == {2, 3, 5, 16, 65}

Payloads == SeqsUpTo(PayloadBytes, MaxPayloadLen)

\* an ordinary byte and every byte either escape treats as reserved
CodecBytes == {1, 2, 3, 4, 5, 16, 23}

CodecPayloads == SeqsUpTo(CodecBytes, MaxPayloadLen)

\* bytes whose bits the checksums are probed with
ChecksumBytes == {0, 3, 127, 128, 255}

ChecksumPayloads == SeqsUpTo(ChecksumBytes, MaxPayloadLen) \ {<<>>}

MisAddresses == {1}

BadChecksums == {0, 127}

\* NUL, ACK, DLE, NAK: none is the start marker
NoiseBytes == {0, 6, 16, 21}

Noise == SeqsUpTo(NoiseBytes, MaxNoise) \ {<<>>}

\* what the display delivers to read_response, derived from a telegram t:
\* t itself, the STX..ETX frame alone, t with a wrong checksum byte, t cut
\* short, t behind line noise, a lone ACK or NAK, nothing
MisStreams(t) ==
    {t, Drop(t, 2)}
    \cup {[t EXCEPT ![Len(t)] = b] : b \in BadChecksums}
    \cup {Take(t, k) : k \in 0..(Len(t) - 1)}
    \cup {n \o t : n \in Noise}
    \cup {<<6>>, <<21>>}

(***************************************************************************)
(* MIS1Protocol as a state machine                                         *)
(***************************************************************************)
MisNone == [kind |-> "none", exc |-> "", response |-> <<>>, consumed |-> 0]

NoCodec == [p |-> <<>>, escaped |-> <<>>, unescaped |-> <<>>, applied |-> FALSE]

NoCalc == [op |-> "none", arg |-> <<>>, pos |-> 0, bit |-> 0, kind |-> "none",
           out |-> <<>>, flipped |-> <<>>, sum |-> 0, sum_flipped |-> 0,
           sum2 |-> 0, sum2_flipped |-> 0]

MisIdle ==
    /\ mis_pc = "idle"
    /\ mis_data = <<>>
    /\ mis_ack = FALSE
    /\ port_log = <<>>
    /\ mis_rx = <<>>
    /\ mis_result = MisNone
    /\ codec = NoCodec
    /\ calc = NoCalc

KroneIdle ==
    /\ pc = "idle"
    /\ data = <<>>
    /\ response = FALSE
    /\ ack = FALSE
    /\ block = FALSE
    /\ control = 0
    /\ chunk_id = 0
    /\ retry = 0
    /\ written = <<>>
    /\ statuses = <<>>
    /\ sleeps = 0
    /\ rx = <<>>
    /\ rx_caps = NoCaps
    /\ result = Running

\* escape applied to a payload and unescape applied to the result
EscapeUnescape(p) ==
    /\ mis_pc = "idle"
    /\ ~codec.applied
    /\ codec' = [p |-> p, escaped |-> mis1_escape(p),
                 unescaped |-> mis1_unescape(mis1_escape(p)), applied |-> TRUE]
    /\ mis_pc' = "applied"
    /\ UNCHANGED <<mis_address, use_rts, mis_data, mis_ack, port_log,
                   mis_rx, mis_result, calc>>
    /\ UNCHANGED <<kvars, xvars, yvars>>

\* unescape applied to bytes as they may arrive, a trailing marker included
Unescape(w) ==
    /\ mis_pc = "idle"
    /\ calc' = [NoCalc EXCEPT !.op = "unescape", !.arg = w, !.kind = "return",
                              !.out = mis1_unescape(w)]
    /\ mis_pc' = "applied"
    /\ UNCHANGED <<mis_address, use_rts, mis_data, mis_ack, port_log,
                   mis_rx, mis_result, codec>>
    /\ UNCHANGED <<kvars, xvars, yvars>>

\* MIS2Protocol.escape applied to a payload
Mis2Escape(p) ==
    /\ mis_pc = "idle"
    /\ calc' = [NoCalc EXCEPT !.op = "escape2", !.arg = p, !.kind = "return",
                              !.out = mis2_escape(p)]
    /\ mis_pc' = "applied"
    /\ UNCHANGED <<mis_address, use_rts, mis_data, mis_ack, port_log,
                   mis_rx, mis_result, codec>>
    /\ UNCHANGED <<kvars, xvars, yvars>>

\* MIS1Protocol.checksum and MIS2Protocol.checksum applied to a payload and
\* to the same payload with bit b of byte i flipped
Checksum(d, i, b) ==
    /\ mis_pc = "idle"
    /\ calc' = [NoCalc EXCEPT !.op = "checksum", !.arg = d, !.pos = i, !.bit = b,
                              !.kind = "return",
                              !.flipped = FlipBit(d, i, b),
                              !.sum = mis1_checksum(d),
                              !.sum_flipped = mis1_checksum(FlipBit(d, i, b)),
                              !.sum2 = mis2_checksum(d),
                              !.sum2_flipped = mis2_checksum(FlipBit(d, i, b))]
    /\ mis_pc' = "applied"
    /\ UNCHANGED <<mis_address, use_rts, mis_data, mis_ack, port_log,
                   mis_rx, mis_result, codec>>
    /\ UNCHANGED <<kvars, xvars, yvars>>

\* MIS2Protocol.send_raw_telegram(data) (mis2_protocol.py lines 50-57)
Mis2SendRawTelegram(d) ==
    /\ mis_pc = "idle"
    /\ mis_data' = d
    /\ port_log' = mis2_send_raw_telegram(port_log, mis_address, d)
    /\ mis_pc' = "sent2"
    /\ UNCHANGED <<mis_address, use_rts, mis_ack, mis_rx, mis_result, codec, calc>>
    /\ UNCHANGED <<kvars, xvars, yvars>>

\* send_raw_telegram(data) (lines 98-100)
SendRawTelegram(d) ==
    /\ mis_pc = "idle"
    /\ mis_data' = d
    /\ port_log' = send_raw_data(port_log, mis1_telegram(mis_address, d), use_rts)
    /\ mis_pc' = "sent"
    /\ UNCHANGED <<mis_address, use_rts, mis_ack, mis_rx, mis_result, codec, calc>>
    /\ UNCHANGED <<kvars, xvars, yvars>>

\* a caller's read_response(ack) after send_raw_telegram
CallReadResponse(ak) ==
    /\ mis_pc = "sent"
    /\ mis_ack' = ak
    /\ mis_pc' = "read"
    /\ UNCHANGED <<mis_address, use_rts, mis_data, port_log, mis_rx, mis_result, codec, calc>>
    /\ UNCHANGED <<kvars, xvars, yvars>>

\* send_command(code, subcode, data, expect_response) (lines 102-105) up to
\* its read_response(ack=False)
SendCommand(code, subcode, d, expect_response) ==
    /\ mis_pc = "idle"
    /\ mis_data' = <<code, subcode>> \o d
    /\ port_log' = send_raw_data(port_log,
                       mis1_telegram(mis_address, <<code, subcode>> \o d), use_rts)
    /\ mis_ack' = FALSE
    /\ mis_pc' = IF expect_response THEN "read" ELSE "done"
    /\ UNCHANGED <<mis_address, use_rts, mis_rx, mis_result, codec, calc>>
    /\ UNCHANGED <<kvars, xvars, yvars>>

\* send_tx_request (lines 107-109) up to its read_response(ack=True)
SendTxRequest ==
    /\ mis_pc = "idle"
    /\ port_log' = send_raw_data(port_log, <<4, Or(128, mis_address), 5>>, use_rts)
    /\ mis_ack' = TRUE
    /\ mis_pc' = "read"
    /\ UNCHANGED <<mis_address, use_rts, mis_data, mis_rx, mis_result, codec, calc>>
    /\ UNCHANGED <<kvars, xvars, yvars>>

\* lines 154-155: "if ack and response != b'\x15'"; a frame is a list and
\* never equal to the bytes object, a lone NAK is
ack_due_always(ak, resp) == ak

ack_due(ak, resp) == ak /\ resp # <<21>>

\* read_response(ack) (lines 111-156) on the bytes the display delivers
MisReadResponse(stream) ==
    /\ mis_pc = "read"
    /\ mis_rx' = stream
    /\ mis_result' = mis1_read_response(stream)
    /\ port_log' =
           IF /\ mis_result'.kind = "return"
              /\ ack_due(mis_ack, mis_result'.response)
           THEN send_raw_data(port_log, <<6>>, use_rts)
           ELSE port_log
    /\ mis_pc' = "done"
    /\ UNCHANGED <<mis_address, use_rts, mis_data, mis_ack, codec, calc>>
    /\ UNCHANGED <<kvars, xvars, yvars>>

\* the telegram send_raw_telegram wrote, or <<>> when none was written
WrittenTelegram ==
    LET ws == SelectSeq(port_log, LAMBDA ev : ev.op = "write" /\ Len(ev.bytes) > 3)
    IN  IF ws = <<>> THEN <<>> ELSE ws[1].bytes

\* nothing has happened yet in the other parts of the model
NoReader == [pc |-> "idle", start |-> 0, escape_active |-> FALSE,
             response |-> <<>>, exc |-> ""]

NoK82 == [pc |-> "idle", op |-> "", phase |-> "", rx_address |-> <<0, 0>>,
          message |-> <<>>, wait_count |-> 0, resent |-> 0, log |-> <<>>, reads |-> <<>>,
          result |-> [kind |-> "none", response |-> <<>>, msg |-> ""]]

NoConc == [pc |-> <<"idle", "idle">>, retry |-> <<0, 0>>, line |-> <<>>,
           stolen |-> FALSE, exc |-> <<"", "">>]

NoFn == [op |-> "none", arg |-> <<>>, out |-> <<>>, back |-> 0]

NoLast == [op |-> "none", enabled |-> FALSE, nsent |-> 0, queue |-> <<>>,
           payload |-> <<>>, result |-> "none"]

NoMigra == [command_queue_enabled |-> FALSE, command_queue |-> <<>>, sent |-> <<>>,
            calls |-> <<>>, last |-> NoLast, n |-> 0]

NoFbk == [pc |-> "idle", timeout |-> 0, tries |-> 0, reads |-> <<>>,
          result |-> [kind |-> "none", value |-> 0, exc |-> ""]]

OthersIdle ==
    /\ migra = NoMigra
    /\ fbk = NoFbk
    /\ reader = NoReader
    /\ k82 = NoK82
    /\ conc = NoConc
    /\ fn = NoFn

Init ==
    /\ KroneInit
    /\ MisIdle
    /\ OthersIdle
    /\ mis_address = 1
    /\ use_rts = TRUE

Next ==
    \/ /\ pc = "idle"
       /\ \E command \in Commands, parameters \in ParameterLists,
             resp \in BOOLEAN, ak \in BOOLEAN, blk \in BOOLEAN :
               Call(command, parameters, resp, ak, blk)
    \/ /\ pc = "idle"
       /\ \E codes \in CodeLists, immediate \in BOOLEAN : SetFbmCodesAddr(codes, immediate)
    \/ /\ pc = "idle"
       /\ \E module_data \in ModuleLists :
            \E k \in 1..Len(_chunks(module_data, MODULES_PER_CALL)) :
                DSetModuleData(module_data, k)
    \/ WriteFrame
    \/ \E reply \in StatusReplies : CheckStatus(reply)
    \/ /\ pc = "read_response"
       /\ \E stream \in RxStreams(written[Len(written)]) : ReadResponse(stream, NoCaps)
    \/ /\ pc = "read_response"
       /\ \E caps \in ShortReads : ReadResponse(written[Len(written)], caps)

\* Krone9000RS485Controller.send_command, one call
Spec == Init /\ [][Next]_vars

InitMIS1 ==
    /\ KroneIdle
    /\ address = 1
    /\ MisIdle
    /\ OthersIdle
    /\ mis_address \in MisAddresses
    /\ use_rts \in BOOLEAN

NextMIS1 ==
    \/ /\ mis_pc = "idle"
       /\ \E p \in CodecPayloads : EscapeUnescape(p)
    \/ /\ mis_pc = "idle"
       /\ \E w \in CodecPayloads : Unescape(w)
    \/ /\ mis_pc = "idle"
       /\ \E p \in CodecPayloads : Mis2Escape(p)
    \/ /\ mis_pc = "idle"
       /\ \E d \in ChecksumPayloads : \E i \in 1..Len(d), b \in 0..7 : Checksum(d, i, b)
    \/ /\ mis_pc = "idle"
       /\ \E d \in CodecPayloads : Mis2SendRawTelegram(d)
    \/ /\ mis_pc = "idle"
       /\ \E d \in Payloads : SendRawTelegram(d)
    \/ \E ak \in BOOLEAN : CallReadResponse(ak)
    \/ /\ mis_pc = "idle"
       /\ \E code \in PayloadBytes, subcode \in PayloadBytes,
             d \in SeqsUpTo(PayloadBytes, MaxPayloadLen - 2), e \in BOOLEAN :
               SendCommand(code, subcode, d, e)
    \/ SendTxRequest
    \/ /\ mis_pc = "read"
       /\ \E q \in (IF WrittenTelegram = <<>> THEN Payloads ELSE {mis_data}) :
            \E stream \in MisStreams(mis1_telegram(mis_address, q)) :
                MisReadResponse(stream)

\* MIS1Protocol and MIS2Protocol: one application of a pure function or one
\* telegram exchange
SpecMIS1 == InitMIS1 /\ [][NextMIS1]_vars

(***************************************************************************)
(* MIS1Protocol.read_response, one port.read(1) at a time                  *)
(***************************************************************************)
\* what one port.read(1) returns: a byte, or nothing when the read timeout
\* (the only deadline there is) expires first
NoByte == 0 - 1

LineBytes == {0, 2, 3, 6, 16, 21}

ReaderRaise ==
    [reader EXCEPT !.pc = "done", !.exc = "CommunicationError"]

\* read_response() is called
ReaderCall ==
    /\ reader.pc = "idle"
    /\ reader' = [reader EXCEPT !.pc = "first"]
    /\ UNCHANGED <<yvars, kvars, mvars, k82, conc, fn>>

\* lines 112-119: the first read
ReaderFirst(b) ==
    /\ reader.pc = "first"
    /\ reader' =
           IF b = NoByte THEN ReaderRaise
           ELSE IF b \in {6, 21}
           THEN [reader EXCEPT !.pc = "done", !.start = b, !.response = <<b>>]
           ELSE IF b = 2
           THEN [reader EXCEPT !.pc = "body", !.start = b, !.response = <<b>>]
           ELSE [reader EXCEPT !.pc = "skip", !.start = b]
    /\ UNCHANGED <<yvars, kvars, mvars, k82, conc, fn>>

\* lines 120-126: one turn of the loop while start != 0x02
ReaderSkip(b) ==
    /\ reader.pc = "skip"
    /\ reader' =
           IF b = NoByte THEN ReaderRaise
           ELSE IF b = 2
           THEN [reader EXCEPT !.pc = "body", !.start = b, !.response = <<b>>]
           ELSE [reader EXCEPT !.start = b]
    /\ UNCHANGED <<yvars, kvars, mvars, k82, conc, fn>>

\* lines 128-148: one turn of the loop after the start marker, up to the
\* read of the checksum byte
ReaderBody(b) ==
    /\ reader.pc = "body"
    /\ Len(reader.response) > MaxBody =>
          \/ b = NoByte
          \/ b = 3 /\ ~reader.escape_active
    /\ reader' =
           IF b = NoByte THEN ReaderRaise
           ELSE IF ~reader.escape_active
           THEN IF b = 16 THEN [reader EXCEPT !.escape_active = TRUE]
                ELSE IF b = 3
                THEN [reader EXCEPT !.pc = "checksum",
                                    !.response = Append(reader.response, b)]
                ELSE [reader EXCEPT !.response = Append(reader.response, b)]
           ELSE [reader EXCEPT !.escape_active = FALSE,
                               !.response = Append(reader.response, b)]
    /\ UNCHANGED <<yvars, kvars, mvars, k82, conc, fn>>

\* lines 138-143: the read of the checksum byte
ReaderChecksum(b) ==
    /\ reader.pc = "checksum"
    /\ reader' =
           IF b = NoByte THEN ReaderRaise
           ELSE [reader EXCEPT !.pc = "done",
                               !.response = Append(reader.response, b)]
    /\ UNCHANGED <<yvars, kvars, mvars, k82, conc, fn>>

InitReader ==
    /\ KroneIdle
    /\ address = 1
    /\ MisIdle
    /\ mis_address = 1
    /\ use_rts = TRUE
    /\ OthersIdle

NextReader ==
    \/ ReaderCall
    \/ \E b \in LineBytes \cup {NoByte} : ReaderFirst(b)
    \/ \E b \in LineBytes \cup {NoByte} : ReaderSkip(b)
    \/ \E b \in LineBytes \cup {NoByte} : ReaderBody(b)
    \/ \E b \in LineBytes \cup {NoByte} : ReaderChecksum(b)

\* read_response never sits idle between two reads: a read returns a byte or
\* times out, and the code then runs to its next read.  What the line
\* delivers is not constrained.
SpecReader == InitReader /\ [][NextReader]_vars /\ WF_vars(NextReader)

(***************************************************************************)
(* Krone8200Display (k8200.py)                                             *)
(***************************************************************************)
K82_STX == 2
K82_ETX == 3
K82_EOT == 4
K82_ENQ == 5
K82_DLE == 16
K82_NAK == 21
K82_PAD == 127
ACK0 == <<K82_DLE, 48>>
ACK1 == <<K82_DLE, 49>>
WABT == <<K82_DLE, 63>>
\* line 146: wait_count >= 3
MAX_WAIT == 3

\* the number of one bits among the low n bits of byte
RECURSIVE Ones(_, _)
Ones(byte, n) == IF n = 0 THEN 0 ELSE (byte % 2) + Ones(byte \div 2, n - 1)

\* make_parity (lines 72-82)
make_parity(byte) ==
    IF Ones(byte, 8) % 2 # 0 THEN Or(byte, 128) ELSE And(byte, 127)

make_lrc_zero_seed(d) == XorFold(0, d)

\* make_lrc (lines 84-88): lrc = 0x7F; lrc ^= b
make_lrc(d) == XorFold(127, d)

\* send_raw_message (lines 157-162): the bytes handed to port.write
raw_message(message) == [i \in 1..Len(message) |-> make_parity(message[i])]

\* the enquiry of send_rx_request, send_tx_request and of a repeated wait
enquiry(addr) ==
    raw_message(<<K82_PAD, K82_EOT, K82_PAD, addr[1], addr[2], K82_ENQ, K82_PAD>>)

\* self.tx_address (line 70)
tx_address(rx_addr) == <<rx_addr[1] - 1, rx_addr[2] - 1>>

\* send_message (lines 187-195)
message_frame(message) ==
    LET d == <<K82_STX>> \o message \o <<K82_ETX>>
    IN  raw_message(<<K82_PAD>> \o d \o <<make_lrc(Tail(d)), K82_PAD>>)

\* send_end_comm (lines 197-198)
end_comm == raw_message(<<K82_PAD, K82_EOT, K82_PAD>>)

\* "{address:>02}{side:>01}{command}" as character codes, for an address
\* below 100 and a side below 10
command_message(addr, side, command) ==
    (IF addr < 10 THEN <<48, 48 + addr>> ELSE <<48 + (addr \div 10), 48 + (addr % 10)>>)
    \o <<48 + side>> \o command

K82Raise(msg) == [kind |-> "raise", response |-> <<>>, msg |-> msg]

K82Response(resp) == [kind |-> "response", response |-> resp, msg |-> ""]

\* read_response (lines 106-139) on the bytes that arrive before the
\* station falls silent
k82_read_response(stream) ==
    IF stream = <<>> THEN K82Raise("No response received from display")
    ELSE LET resp == [i \in 1..Len(stream) |-> And(stream[i], 127)]
         IN  IF resp[1] # K82_PAD
             THEN K82Raise("First byte of response should be PAD")
             ELSE IF Len(resp) >= 2 /\ resp[2] = K82_NAK
             THEN K82Raise("NAK response")
             ELSE K82Response(Tail(resp))

\* check_response_wait (lines 176-180)
check_response_wait(resp) == resp = WABT

check_response_ack_any(resp) == TRUE

\* check_response_ack (lines 182-185)
check_response_ack(resp) == resp \in {ACK0, ACK1}

wait_exceeded_late(wait_count) == wait_count >= MAX_WAIT + 1

\* line 146
wait_exceeded(wait_count) == wait_count >= MAX_WAIT

K82Write(log, bytes) == Append(log, [op |-> "write", bytes |-> bytes])

K82Rx(log, bytes) == Append(log, [op |-> "read", bytes |-> bytes])

\* self.rx_address, set by the constructor
RxAddresses == {<<34, 35>>}

\* what the station sends in answer: nothing, ACK0, ACK0 with parity bits,
\* ACK1, WABT, NAK, ACK0 without the leading PAD, a lone PAD, a text
K82Replies ==
    {<<>>, <<K82_PAD>> \o ACK0, raw_message(<<K82_PAD>> \o ACK0),
     <<K82_PAD>> \o ACK1, <<K82_PAD>> \o WABT, <<K82_PAD, K82_NAK>>,
     ACK0, <<K82_PAD>>, <<K82_PAD, 88>>}

\* send_command(address, side, command) (lines 203-216) up to the first
\* read: send_rx_request writes the enquiry (line 165)
K82SendCommand(addr, side, command) ==
    /\ k82.pc = "idle"
    /\ k82' = [k82 EXCEPT !.pc = "read", !.op = "send_command", !.phase = "enquiry",
                          !.message = command_message(addr, side, command),
                          !.log = K82Write(k82.log, enquiry(k82.rx_address))]
    /\ UNCHANGED <<yvars, kvars, mvars, reader, conc, fn>>

\* send_tx_request (lines 170-174) up to the first read
K82SendTxRequest ==
    /\ k82.pc = "idle"
    /\ k82' = [k82 EXCEPT !.pc = "read", !.op = "send_tx_request", !.phase = "tx",
                          !.log = K82Write(k82.log, enquiry(tx_address(k82.rx_address)))]
    /\ UNCHANGED <<yvars, kvars, mvars, reader, conc, fn>>

\* one read_response inside read_response_and_handle_wait (lines 141-155)
\* and what follows it up to the next read or the end of the call
K82Read(stream) ==
    /\ k82.pc = "read"
    /\ LET r == k82_read_response(stream)
           log1 == K82Rx(k82.log, stream)
           reads1 == Append(k82.reads, stream)
           addr == IF k82.phase = "tx" THEN tx_address(k82.rx_address)
                   ELSE k82.rx_address
       IN  k82' =
             IF r.kind = "raise"
             THEN [k82 EXCEPT !.pc = "done", !.log = log1, !.reads = reads1,
                              !.result = r]
             ELSE IF check_response_wait(r.response)
             THEN IF wait_exceeded(k82.wait_count + 1)
                  THEN [k82 EXCEPT !.pc = "done", !.wait_count = k82.wait_count + 1,
                                   !.log = K82Write(log1, end_comm), !.reads = reads1,
                                   !.result = K82Raise("Maximum wait retries exceeded")]
                  ELSE [k82 EXCEPT !.wait_count = k82.wait_count + 1,
                                   !.resent = k82.resent + 1,
                                   !.log = K82Write(log1, enquiry(addr)),
                                   !.reads = reads1]
             ELSE IF k82.phase = "tx"
             THEN [k82 EXCEPT !.pc = "done", !.log = log1, !.reads = reads1,
                              !.result = r]
             ELSE IF ~check_response_ack(r.response)
             THEN [k82 EXCEPT !.pc = "done", !.log = log1, !.reads = reads1,
                              !.result = [kind |-> "false", response |-> <<>>, msg |-> ""]]
             ELSE IF k82.phase = "enquiry"
             THEN [k82 EXCEPT !.phase = "message", !.wait_count = 0, !.resent = 0,
                              !.log = K82Write(log1, message_frame(k82.message)),
                              !.reads = <<>>]
             ELSE [k82 EXCEPT !.pc = "done", !.log = K82Write(log1, end_comm),
                              !.reads = reads1,
                              !.result = [kind |-> "true", response |-> <<>>, msg |-> ""]]
    /\ UNCHANGED <<yvars, kvars, mvars, reader, conc, fn>>

\* the frames handed to port.write so far, in order
K82Written ==
    LET ws == SelectSeq(k82.log, LAMBDA ev : ev.op = "write")
    IN  [i \in 1..Len(ws) |-> ws[i].bytes]

(***************************************************************************)
(* Two callers of send_command on one Krone9000RS485Controller             *)
(***************************************************************************)
\* Each caller runs send_command(command, parameters) with single-chunk data
\* and the default ack=True.  send_command and check_status take no lock
\* (lines 72-144), so the port.write and the port.read(1) of the two calls
\* interleave freely.  line holds the status bytes the device has put on the
\* wire and nobody has read yet, each with the caller whose frame it answers.
Callers == {1, 2}

\* the caller enters send_command
ConcCall(t) ==
    /\ conc.pc[t] = "idle"
    /\ conc' = [conc EXCEPT !.pc[t] = "write"]
    /\ UNCHANGED <<yvars, kvars, mvars, reader, k82, fn>>

\* line 111: port.write of the caller's frame, which the device answers
\* with a status byte
ConcWrite(t, status) ==
    /\ conc.pc[t] = "write"
    /\ conc' = [conc EXCEPT !.pc[t] = "check_status",
                            !.line = Append(conc.line, [owner |-> t, status |-> status])]
    /\ UNCHANGED <<yvars, kvars, mvars, reader, k82, fn>>

\* lines 116-124: check_status reads the next byte on the wire, whoever it
\* was meant for; nothing if another caller has already taken it
ConcCheckStatus(t) ==
    /\ conc.pc[t] = "check_status"
    /\ LET reply == IF conc.line = <<>> THEN <<>> ELSE <<Head(conc.line).status>>
           outcome == check_status(reply)
           step == status_step(outcome, conc.retry[t])
           rest == IF conc.line = <<>> THEN <<>> ELSE Tail(conc.line)
           theft == conc.line # <<>> /\ Head(conc.line).owner # t
       IN  conc' =
               IF step = "sleep"
               THEN [conc EXCEPT !.pc[t] = "write", !.retry[t] = conc.retry[t] + 1,
                                 !.line = rest, !.stolen = conc.stolen \/ theft]
               ELSE [conc EXCEPT !.pc[t] = "done", !.line = rest,
                                 !.stolen = conc.stolen \/ theft,
                                 !.exc[t] = IF step = "raise" THEN outcome ELSE ""]
    /\ UNCHANGED <<yvars, kvars, mvars, reader, k82, fn>>

AllIdle ==
    /\ KroneIdle
    /\ address = 1
    /\ MisIdle
    /\ mis_address = 1
    /\ use_rts = TRUE
    /\ OthersIdle

InitConc == AllIdle

NextConc ==
    \/ \E t \in Callers : ConcCall(t)
    \/ \E t \in Callers, status \in {STATUS_ACK, STATUS_BUSY, STATUS_NACK} :
            ConcWrite(t, status)
    \/ \E t \in Callers : ConcCheckStatus(t)

SpecConc == InitConc /\ [][NextConc]_vars

(***************************************************************************)
(* IBISProtocol and Krone8200Display: pure functions                       *)
(***************************************************************************)
\* IBISProtocol.wrap_telegram (ibis_protocol.py 127-143): append 0x0D, then
\* the XOR of 0x7F and every byte so far
wrap_telegram(telegram) ==
    LET ended == Append(telegram, 13)
    IN  Append(ended, XorFold(127, ended))

\* vdvhex = "0123456789:;<=>?" (ibis_protocol.py 187), one character each
vdvhex == <<"0", "1", "2", "3", "4", "5", "6", "7", "8", "9",
            ":", ";", "<", "=", ">", "?">>

\* vdvhex.index(c)
vdvhex_index(c) == (CHOOSE i \in 1..Len(vdvhex) : vdvhex[i] = c) - 1

\* vdv_hex(value) for an int (lines 188-195): a string, one character each
vdv_hex_of_int(value) ==
    IF value > 15
    THEN <<vdvhex[(value \div 16) + 1], vdvhex[(value % 16) + 1]>>
    ELSE <<vdvhex[value + 1]>>

\* vdv_hex(value) for a string (lines 196-203).  Line 201 is
\* high_nibble << 4 + low_nibble, and + binds tighter than << in Python:
\* high_nibble << (4 + low_nibble)
vdv_hex_of_str(value) ==
    IF Len(value) = 2
    THEN vdvhex_index(value[1]) * (2 ^ (4 + vdvhex_index(value[2])))
    ELSE vdvhex_index(value[1])

\* bytes the checksums are applied to: NUL, the end byte 0x0D, the seed
\* 0x7F, 0xAA
LrcBytes == {0, 13, 127, 170}

LrcInputs == SeqsUpTo(LrcBytes, MaxPayloadLen)

MakeLrc(d) ==
    /\ fn.op = "none"
    /\ fn' = [op |-> "make_lrc", arg |-> d, out |-> <<make_lrc(d)>>, back |-> 0]
    /\ UNCHANGED <<yvars, kvars, mvars, reader, k82, conc>>

WrapTelegram(telegram) ==
    /\ fn.op = "none"
    /\ fn' = [op |-> "wrap_telegram", arg |-> telegram,
              out |-> wrap_telegram(telegram), back |-> 0]
    /\ UNCHANGED <<yvars, kvars, mvars, reader, k82, conc>>

\* vdv_hex applied to an int and again to the string that gives
VdvHex(value) ==
    /\ fn.op = "none"
    /\ fn' = [op |-> "vdv_hex", arg |-> <<value>>, out |-> vdv_hex_of_int(value),
              back |-> vdv_hex_of_str(vdv_hex_of_int(value))]
    /\ UNCHANGED <<yvars, kvars, mvars, reader, k82, conc>>

\* groupby: the index after the run of equal values that starts at lst[i]
RunEnd(lst, i) ==
    LET differ == {j \in (i + 1)..Len(lst) : lst[j] # lst[i]}
    IN  IF differ = {} THEN Len(lst) + 1
        ELSE CHOOSE j \in differ : \A m \in differ : j <= m

\* Krone9000FBK._rle, lines 86-89: what a run of n > 2 values k becomes
RECURSIVE rle_run(_, _)
rle_run(n, k) ==
    IF n > 128 THEN <<Or(n - 1, 128), k>> \o rle_run(n - 128, k)
    ELSE <<Or(n - 1, 128), k>>

\* Krone9000FBK._rle (k9000_fbk.py lines 80-92), from lst[i] on
RECURSIVE rle_from(_, _)
rle_from(lst, i) ==
    IF i > Len(lst) THEN <<>>
    ELSE LET e == RunEnd(lst, i)
         IN  (IF e - i > 2 THEN rle_run(e - i, lst[i])
              ELSE [j \in 1..(e - i) |-> lst[i]]) \o rle_from(lst, e)

_rle(lst) == rle_from(lst, 1)

\* lists of 7-bit codes: up to two runs, short ones and ones around 128
RunLengths == {1, 2, 3, 127, 128, 129, 200}

RleInputs ==
    {[i \in 1..(n1 + n2) |-> IF i <= n1 THEN c1 ELSE c2] :
        n1 \in RunLengths, n2 \in RunLengths \cup {0}, c1 \in {5, 127}, c2 \in {0, 5}}

Rle(lst) ==
    /\ fn.op = "none"
    /\ fn' = [op |-> "_rle", arg |-> lst, out |-> _rle(lst), back |-> 0]
    /\ UNCHANGED <<yvars, kvars, mvars, reader, k82, conc>>

\* MONOProtocol.escape_frame (lawo/mono_protocol.py lines 115-131)
RECURSIVE escape_frame_start_only(_)
escape_frame_start_only(frame) ==
    IF frame = <<>> THEN <<>>
    ELSE (IF Head(frame) = 126 THEN <<125, 94>> ELSE <<Head(frame)>>)
         \o escape_frame_start_only(Tail(frame))

RECURSIVE escape_frame(_)
escape_frame(frame) ==
    IF frame = <<>> THEN <<>>
    ELSE (IF Head(frame) = 126 THEN <<125, 94>>
          ELSE IF Head(frame) = 125 THEN <<125, 93>>
          ELSE <<Head(frame)>>) \o escape_frame(Tail(frame))

\* MONOProtocol.prepare_frame (lines 133-148)
prepare_frame(frame) == <<126>> \o escape_frame(frame) \o <<126>>

\* the start/stop byte, the escape byte, the two bytes that follow an escape
\* byte, and a letter
MonoBytes == {65, 93, 94, 125, 126}

MonoFrames == SeqsUpTo(MonoBytes, MaxPayloadLen)

PrepareFrame(frame) ==
    /\ fn.op = "none"
    /\ fn' = [op |-> "prepare_frame", arg |-> frame, out |-> prepare_frame(frame),
              back |-> 0]
    /\ UNCHANGED <<yvars, kvars, mvars, reader, k82, conc>>

\* sorted(module_data, key=lambda i: i[0]) (omega/rs485.py line 87): a
\* stable insertion of item x into the sorted list lst
RECURSIVE InsertByAddr(_, _)
InsertByAddr(lst, x) ==
    IF lst = <<>> THEN <<x>>
    ELSE IF x[1] < lst[Len(lst)][1]
    THEN Append(InsertByAddr(SubSeq(lst, 1, Len(lst) - 1), x), lst[Len(lst)])
    ELSE Append(lst, x)

RECURSIVE SortedByAddr(_)
SortedByAddr(module_data) ==
    IF module_data = <<>> THEN <<>>
    ELSE InsertByAddr(SortedByAddr(SubSeq(module_data, 1, Len(module_data) - 1)),
                      module_data[Len(module_data)])

\* line 92: addr - last_addr > 1
address_gap_wide(addr, last_addr) == addr - last_addr > 2

address_gap(addr, last_addr) == addr - last_addr > 1

\* the loop of OmegaRS485Controller.d_set_module_data (lines 91-103) from
\* items[i] on; last_addr is None exactly when i = 1.  The result is the
\* list of set_position(start_addr, pos_block) calls.
RECURSIVE omega_blocks(_, _, _, _, _, _)
omega_blocks(items, i, last_addr, start_addr, pos_block, calls) ==
    IF i > Len(items) THEN calls
    ELSE LET addr == items[i][1]
             pos == items[i][2]
             flush == i > 1 /\ address_gap(addr, last_addr)
             calls1 == IF flush THEN Append(calls, <<start_addr, pos_block>>) ELSE calls
             block1 == IF flush THEN <<>> ELSE pos_block
             start1 == IF block1 = <<>> THEN addr ELSE start_addr
             block2 == Append(block1, pos)
             last == i = Len(items)
         IN  omega_blocks(items, i + 1, addr, start1,
                          IF last THEN <<>> ELSE block2,
                          IF last THEN Append(calls1, <<start1, block2>>) ELSE calls1)

\* OmegaRS485Controller.d_set_module_data (lines 83-103)
d_set_module_data(module_data) ==
    omega_blocks(SortedByAddr(module_data), 1, 0, 0, <<>>, <<>>)

\* set_position -> send_command -> prepare_message (lines 35-42, 62-70)
set_position_message(call) == <<255, 192, call[1]>> \o call[2]

\* modules in one call of d_set_module_data
MaxModules == 3

OmegaItems == {<<a, q>> : a \in {1, 2, 3, 5}, q \in {0, 7}}

OmegaModuleData == SeqsUpTo(OmegaItems, MaxModules)

OmegaDSetModuleData(module_data) ==
    /\ fn.op = "none"
    /\ LET calls == d_set_module_data(module_data)
       IN  fn' = [op |-> "d_set_module_data", arg |-> module_data, out |-> calls,
                  back |-> [k \in 1..Len(calls) |-> set_position_message(calls[k])]]
    /\ UNCHANGED <<yvars, kvars, mvars, reader, k82, conc>>

\* the keys of MIS1Protocol.ERROR_CODES (mis1_protocol.py lines 27-49)
ERROR_CODES == {0, 1, 2, 5, 6, 8, 11, 13, 15, 16, 17, 19, 20, 24, 25, 26, 27,
                36, 38, 57, 255}

\* MIS1Protocol.check_error(response) (lines 158-164): how it ends, and the
\* code the DisplayError names (data[1])
check_error(resp) ==
    IF Len(resp) < 7 THEN [kind |-> "return", code |-> 0]
    ELSE IF resp[2] # 140 THEN [kind |-> "return", code |-> 0]
    ELSE LET d == mis1_unescape(SubSeq(resp, 4, Len(resp) - 2))
         IN  IF Len(d) < 2 THEN [kind |-> "IndexError", code |-> 0]
             ELSE [kind |-> "DisplayError", code |-> d[2]]

\* the display answers with the error reply [0x8C, subcode, d0, code] in a
\* frame; read_response reads the frame and check_error is applied to what
\* it returned
CheckError(subcode, d0, code) ==
    /\ fn.op = "none"
    /\ LET p == <<140, subcode, d0, code>>
           r == mis1_read_response(Drop(mis1_telegram(1, p), 2))
       IN  fn' = [op |-> "check_error", arg |-> p, out |-> r.response,
                  back |-> check_error(r.response)]
    /\ UNCHANGED <<yvars, kvars, mvars, reader, k82, conc>>

InitK82 ==
    /\ KroneIdle
    /\ address = 1
    /\ MisIdle
    /\ mis_address = 1
    /\ use_rts = TRUE
    /\ reader = NoReader
    /\ conc = NoConc
    /\ fn = NoFn
    /\ migra = NoMigra
    /\ fbk = NoFbk
    /\ \E a \in RxAddresses : k82 = [NoK82 EXCEPT !.rx_address = a]

NextK82 ==
    \/ /\ k82.pc = "idle"
       /\ \E addr \in {1, 12}, side \in {0, 2}, command \in {<<82>>, <<83, 49>>} :
            K82SendCommand(addr, side, command)
    \/ K82SendTxRequest
    \/ /\ k82.pc = "read"
       /\ \E stream \in K82Replies : K82Read(stream)

\* Krone8200Display: one send_command or one send_tx_request
SpecK82 == InitK82 /\ [][NextK82]_vars

InitCodes == AllIdle

NextCodes ==
    \/ /\ fn.op = "none"
       /\ \E d \in LrcInputs : MakeLrc(d)
    \/ /\ fn.op = "none"
       /\ \E telegram \in LrcInputs : WrapTelegram(telegram)
    \/ /\ fn.op = "none"
       /\ \E value \in 0..255 : VdvHex(value)
    \/ /\ fn.op = "none"
       /\ \E subcode \in {0, 1}, d0 \in {0, 65}, code \in ERROR_CODES :
            CheckError(subcode, d0, code)
    \/ /\ fn.op = "none"
       /\ \E lst \in RleInputs : Rle(lst)
    \/ /\ fn.op = "none"
       /\ \E frame \in MonoFrames : PrepareFrame(frame)
    \/ /\ fn.op = "none"
       /\ \E module_data \in OmegaModuleData : OmegaDSetModuleData(module_data)

\* one application of make_lrc, wrap_telegram or vdv_hex
SpecCodes == InitCodes /\ [][NextCodes]_vars

(***************************************************************************)
(* MigraTCP (microsyst/migra.py): send_command and the command queue       *)
(***************************************************************************)
\* sum(telegram[lo..hi]), split in halves
RECURSIVE SumRange(_, _, _)
SumRange(d, lo, hi) ==
    IF lo > hi THEN 0
    ELSE IF lo = hi THEN d[lo]
    ELSE LET mid == (lo + hi) \div 2
         IN  SumRange(d, lo, mid) + SumRange(d, mid + 1, hi)

MAX_TELEGRAM == 230

\* send_telegram lines 130-148 with checksum=True: the telegram of a payload
migra_telegram(payload, resp) ==
    LET length == Len(payload)
        frame_ctrl == Or(Or(128, IF resp THEN 1 ELSE 0), 2)
        head == <<2, 129, 128, frame_ctrl,
                  Or(240, And(length, 240) \div 16), Or(240, And(length, 15))>>
                \o payload
        chk_sum == SumRange(head, 2, Len(head)) % 256
    IN  head \o <<Or(240, And(chk_sum, 240) \div 16), Or(240, And(chk_sum, 15)), 3>>

\* send_telegram (lines 109-153): what goes out on the socket and how the
\* call ends.  outcome is what the socket does: "ok", "send_fails" (socket.send
\* raises) or "recv_fails" (socket.recv raises after the telegram left)
send_telegram(sent, payload, resp, outcome) ==
    IF Len(payload) > MAX_TELEGRAM THEN [sent |-> sent, result |-> "ValueError"]
    ELSE IF outcome = "send_fails" THEN [sent |-> sent, result |-> "OSError"]
    ELSE [sent |-> Append(sent, migra_telegram(payload, resp)),
          result |-> IF ~resp THEN "None"
                     ELSE IF outcome = "recv_fails" THEN "OSError"
                     ELSE "response"]

\* send_command lines 193-199: the payload of a command
command_payload_no_separator(command, escape, queued) ==
    (IF escape THEN <<27>> ELSE <<>>) \o command

command_payload(command, escape, queued) ==
    (IF escape THEN <<27>> ELSE <<>>)
    \o (IF ~escape /\ queued THEN <<31>> ELSE <<>>)
    \o command

\* b"".join(self.command_queue)
RECURSIVE Join(_)
Join(queue) == IF queue = <<>> THEN <<>> ELSE Head(queue) \o Join(Tail(queue))

\* the finally block of send_command_queue (lines 225-227)
queue_finally_keep(m) == [m EXCEPT !.command_queue_enabled = FALSE]

queue_finally(m) ==
    [m EXCEPT !.command_queue_enabled = FALSE, !.command_queue = <<>>]

\* a two-letter command and a text of 120 characters
MigraCommands == {<<67, 76>>, [i \in 1..120 |-> 65]}

SocketOutcomes == {"ok", "send_fails", "recv_fails"}

\* calls made on one MigraTCP object
MaxCalls == 4

\* start_command_queue (lines 205-211)
MigraStartCommandQueue ==
    /\ migra.n < MaxCalls
    /\ migra' = [migra EXCEPT !.command_queue_enabled = TRUE,
                              !.n = migra.n + 1,
                              !.last = [NoLast EXCEPT !.op = "start_command_queue",
                                                      !.enabled = migra.command_queue_enabled,
                                                      !.nsent = Len(migra.sent),
                                                      !.queue = migra.command_queue]]
    /\ UNCHANGED <<kvars, mvars, xvars, fbk>>

\* send_command(command, escape, response=resp) (lines 179-203)
MigraSendCommand(command, escape, resp, outcome) ==
    /\ migra.n < MaxCalls
    /\ LET payload == command_payload(command, escape, migra.command_queue_enabled)
           t == send_telegram(migra.sent, payload, resp, outcome)
           last == [op |-> "send_command", enabled |-> migra.command_queue_enabled,
                    nsent |-> Len(migra.sent), queue |-> migra.command_queue,
                    payload |-> payload, result |-> "None"]
       IN  migra' =
             IF migra.command_queue_enabled
             THEN [migra EXCEPT !.command_queue = Append(migra.command_queue, payload),
                                !.calls = Append(migra.calls, <<command, escape>>),
                                !.n = migra.n + 1,
                                !.last = last]
             ELSE [migra EXCEPT !.sent = t.sent,
                                !.n = migra.n + 1,
                                !.last = [last EXCEPT !.result = t.result]]
    /\ UNCHANGED <<kvars, mvars, xvars, fbk>>

\* send_command_queue(response=resp) (lines 213-227)
MigraSendCommandQueue(resp, outcome) ==
    /\ migra.n < MaxCalls
    /\ LET telegram == Join(migra.command_queue)
           t == send_telegram(migra.sent, telegram, resp, outcome)
       IN  migra' = [queue_finally(migra) EXCEPT
                        !.sent = t.sent,
                        !.calls = <<>>,
                        !.n = migra.n + 1,
                        !.last = [op |-> "send_command_queue",
                                  enabled |-> migra.command_queue_enabled,
                                  nsent |-> Len(migra.sent),
                                  queue |-> migra.command_queue,
                                  payload |-> telegram,
                                  result |-> t.result]]
    /\ UNCHANGED <<kvars, mvars, xvars, fbk>>

InitMigra == AllIdle

NextMigra ==
    \/ MigraStartCommandQueue
    \/ /\ migra.n < MaxCalls
       /\ \E command \in MigraCommands, escape \in BOOLEAN,
             outcome \in SocketOutcomes :
               \* in queue mode the socket is not used; the callers of
               \* send_command in migra.py leave response at its default
               /\ migra.command_queue_enabled => outcome = "ok"
               /\ MigraSendCommand(command, escape, TRUE, outcome)
    \/ \E resp \in BOOLEAN, outcome \in SocketOutcomes :
            MigraSendCommandQueue(resp, outcome)

\* calls of start_command_queue, send_command and send_command_queue on one
\* MigraTCP object, in any order
SpecMigra == InitMigra /\ [][NextMigra]_vars

(***************************************************************************)
(* Krone9000FBK.set_fbm_value_table (k9000_fbk.py lines 143-164)           *)
(***************************************************************************)
\* the 5.0 seconds of line 158, in tenths of a second like fbk.timeout
POLL_TENTHS == 50

\* line 158: tries >= 5.0 / self.port.timeout
poll_limit_reached_late(tries, timeout) == tries * timeout >= 2 * POLL_TENTHS

poll_limit_reached(tries, timeout) == tries * timeout >= POLL_TENTHS

\* port.timeout in tenths of a second: 0.1 s, the default 1.0 s, 2 s, 3 s, 6 s
PortTimeouts == {1, 10, 20, 30, 60}

ResultBytes == {0, 5, 255}

\* lines 148-149: send_command with the table; when it raises, so does
\* set_fbm_value_table, otherwise the wait for the result byte begins
FbkSetValueTable(timeout, sent) ==
    /\ fbk.pc = "idle"
    /\ fbk' = IF sent
              THEN [fbk EXCEPT !.pc = "poll", !.timeout = timeout]
              ELSE [fbk EXCEPT !.pc = "done", !.timeout = timeout,
                               !.result = [kind |-> "raise", value |-> 0,
                                           exc |-> "send_command"]]
    /\ UNCHANGED <<kvars, mvars, xvars, migra>>

\* lines 157-164: one turn of the loop; b is what port.read(1) delivers,
\* NoByte when the read times out
FbkPoll(b) ==
    /\ fbk.pc = "poll"
    /\ fbk' = IF poll_limit_reached(fbk.tries, fbk.timeout)
              THEN [fbk EXCEPT !.pc = "done",
                               !.result = [kind |-> "raise", value |-> 0,
                                           exc |-> "CommunicationError"]]
              ELSE IF b = NoByte
              THEN [fbk EXCEPT !.tries = fbk.tries + 1, !.reads = Append(fbk.reads, b)]
              ELSE [fbk EXCEPT !.pc = "done", !.tries = fbk.tries + 1,
                               !.reads = Append(fbk.reads, b),
                               !.result = [kind |-> "return", value |-> b, exc |-> ""]]
    /\ UNCHANGED <<kvars, mvars, xvars, migra>>

InitFbk == AllIdle

NextFbk ==
    \/ \E timeout \in PortTimeouts, sent \in BOOLEAN : FbkSetValueTable(timeout, sent)
    \/ \E b \in ResultBytes \cup {NoByte} : FbkPoll(b)

\* one call of set_fbm_value_table
SpecFbk == InitFbk /\ [][NextFbk]_vars

(***************************************************************************)
(* Claims about Krone9000RS485Controller                                   *)
(***************************************************************************)
\* the fields of a frame FF FF board address length control chunk data.. 00 checksum
ChunkField(f) == f[7]

FrameData(f) == SubSeq(f, 8, Len(f) - 2)

RECURSIVE ConcatData(_)
ConcatData(frames) ==
    IF frames = <<>> THEN <<>>
    ELSE ConcatData(SubSeq(frames, 1, Len(frames) - 1)) \o FrameData(frames[Len(frames)])

\* an acknowledged write without response, once called
AckCall == pc # "idle" /\ ack /\ ~response

AllReplies(reply) == \A i \in 1..Len(statuses) : statuses[i].reply = reply

\* the status reads of chunk c (0-based), as indices into statuses
StatusesOf(c) == {i \in 1..Len(statuses) : statuses[i].chunk = c}

\* C1 (as claimed): against a device that answers every frame with
\* STATUS_BUSY, a send_command with ack and without response writes the
\* frame exactly RETRY_COUNT + 1 times and then fails.
C1_RetryBound ==
    (AckCall /\ pc = "done" /\ Len(statuses) > 0 /\ AllReplies(<<STATUS_BUSY>>))
        => (Len(written) = RETRY_COUNT + 1 /\ result.kind = "raise")

\* C1 (as amended): against a device that answers every frame with
\* STATUS_BUSY, a send_command with ack and without response writes the
\* frame exactly RETRY_COUNT times, sleeping between the attempts, and then
\* fails with the BusyError of the last attempt.
C1_RetryBoundAmended ==
    (AckCall /\ pc = "done" /\ Len(statuses) > 0 /\ AllReplies(<<STATUS_BUSY>>))
        => /\ Len(written) = RETRY_COUNT
           /\ Len(statuses) = RETRY_COUNT
           /\ sleeps = RETRY_COUNT - 1
           /\ result.kind = "raise"
           /\ result.exc = "BusyError"
           /\ \A j \in 1..Len(written) : written[j] = written[1]

C1_Witness ==
    /\ AckCall
    /\ pc = "done"
    /\ Len(statuses) = RETRY_COUNT
    /\ AllReplies(<<STATUS_BUSY>>)
    /\ result.exc = "BusyError"

\* C2: a STATUS_NACK read by check_status ends the call at once with
\* NACKError; the frame it answers was sent once for that status read and
\* nothing is written after it.
C2_NackNeverRetried ==
    AckCall =>
        \A i \in 1..Len(statuses) :
            statuses[i].reply = <<STATUS_NACK>> =>
                /\ i = Len(statuses)
                /\ pc = "done"
                /\ result.kind = "raise"
                /\ result.exc = "NACKError"
                /\ Len(written) = statuses[i].nwritten
                /\ statuses[i].nwritten =
                       (IF i = 1 THEN 0 ELSE statuses[i - 1].nwritten) + 1

C2_Witness ==
    /\ AckCall
    /\ pc = "done"
    /\ Len(statuses) >= 2
    /\ statuses[Len(statuses)].reply = <<STATUS_NACK>>
    /\ statuses[Len(statuses)].chunk = 1

\* C3: with ack and without response, the frame of chunk N+1 is written only
\* after a status read of chunk N returned ACK, frames go out in chunk order
\* starting at 1, and after a failed status (NACK, unknown byte, nothing
\* read, or Busy on the last retry) no further frame is written.
C3_ChunksSequential ==
    AckCall =>
        /\ \A j \in 1..Len(written) :
               ChunkField(written[j]) >= 2 =>
                   \E i \in 1..Len(statuses) :
                       /\ statuses[i].chunk + 2 = ChunkField(written[j])
                       /\ statuses[i].reply = <<STATUS_ACK>>
                       /\ statuses[i].nwritten < j
        /\ Len(written) >= 1 => ChunkField(written[1]) = 1
        /\ \A j \in 1..(Len(written) - 1) :
               ChunkField(written[j + 1]) \in
                   {ChunkField(written[j]), ChunkField(written[j]) + 1}
        /\ \A i \in 1..Len(statuses) :
               statuses[i].reply \notin {<<STATUS_ACK>>, <<STATUS_BUSY>>} =>
                   /\ Len(written) = statuses[i].nwritten
                   /\ pc = "done"
        /\ \A c \in 0..chunk_id :
               (/\ Cardinality(StatusesOf(c)) = RETRY_COUNT
                /\ \A i \in StatusesOf(c) : statuses[i].reply = <<STATUS_BUSY>>)
                   => /\ pc = "done"
                      /\ \A j \in 1..Len(written) : ChunkField(written[j]) <= c + 1

C3_Witness ==
    /\ AckCall
    /\ Len(data) = 3 * MAX_CHUNK_SIZE
    /\ pc = "done"
    /\ result.kind = "raise"
    /\ Len(statuses) > 0
    /\ statuses[Len(statuses)].chunk = 1
    /\ ChunkField(written[Len(written)]) = 2
    /\ \E i \in 1..Len(statuses) : statuses[i].reply = <<STATUS_BUSY>>

\* C4: in block mode against a device that acknowledges every frame, data of
\* n bytes goes out in ceil(n / MAX_CHUNK_SIZE) frames, the k-th with chunk
\* id k and at most MAX_CHUNK_SIZE data bytes, and the data bytes of the
\* frames in order are the data.
C4_ChunkSplitting ==
    (AckCall /\ block /\ AllReplies(<<STATUS_ACK>>)) =>
        /\ \A k \in 1..Len(written) :
               /\ ChunkField(written[k]) = k
               /\ Len(FrameData(written[k])) <= MAX_CHUNK_SIZE
               /\ Len(FrameData(written[k])) >= 1
        /\ ConcatData(written) = SubSeq(data, 1, Len(ConcatData(written)))
        /\ pc = "done" =>
               /\ Len(written) = (Len(data) + MAX_CHUNK_SIZE - 1) \div MAX_CHUNK_SIZE
               /\ ConcatData(written) = data
               /\ result.kind = "return"

C4_Witness ==
    /\ AckCall
    /\ block
    /\ AllReplies(<<STATUS_ACK>>)
    /\ pc = "done"
    /\ Len(data) = 3 * MAX_CHUNK_SIZE
    /\ Len(written) = 3

\* C5: with ack and without response the call returns normally only if the
\* last status read of every chunk was ACK; a NACK, an unknown status byte
\* or Busy on the last retry ends it with an error.
C5_NoDowngrade ==
    (AckCall /\ pc = "done") =>
        /\ result.kind = "return" =>
               \A c \in 0..(NumChunks - 1) :
                   \E i \in StatusesOf(c) :
                       /\ statuses[i].reply = <<STATUS_ACK>>
                       /\ \A j \in StatusesOf(c) : j <= i
        /\ (\E i \in 1..Len(statuses) :
               statuses[i].reply \notin {<<STATUS_ACK>>, <<STATUS_BUSY>>})
               => result.kind = "raise"
        /\ (\E c \in 0..(NumChunks - 1) :
               /\ Cardinality(StatusesOf(c)) = RETRY_COUNT
               /\ \A i \in StatusesOf(c) : statuses[i].reply = <<STATUS_BUSY>>)
               => result.kind = "raise"

C5_Witness ==
    /\ AckCall
    /\ pc = "done"
    /\ result.kind = "return"
    /\ NumChunks = 3
    /\ \E i \in 1..Len(statuses) : statuses[i].reply = <<STATUS_BUSY>>

\* C11: send_command with more than MAX_CHUNK_SIZE data bytes and
\* block=False fails with CommunicationError before anything is written to
\* the port and before any status or response is read.
C11_PayloadTooLarge ==
    (pc # "idle" /\ Len(data) > MAX_CHUNK_SIZE /\ ~block) =>
        /\ pc = "done"
        /\ result.kind = "raise"
        /\ result.exc = "CommunicationError"
        /\ written = <<>>
        /\ statuses = <<>>
        /\ rx = <<>>
        /\ sleeps = 0

C11_Witness ==
    /\ pc = "done"
    /\ Len(data) = MAX_CHUNK_SIZE + 1
    /\ ~block
    /\ ack
    /\ result.exc = "CommunicationError"
    /\ written = <<>>

\* the positions where g differs from f
DiffPositions(g, f) == {i \in 1..Len(f) : g[i] # f[i]}

\* g is f with exactly one bit flipped, in a byte the checksum covers
SingleBitFlipOf(g, f) ==
    /\ Len(g) = Len(f)
    /\ Cardinality(DiffPositions(g, f)) = 1
    /\ \A i \in DiffPositions(g, f) :
          /\ i \in 3..(Len(f) - 1)
          /\ Xor(g[i], f[i]) \in {1, 2, 4, 8, 16, 32, 64, 128}

\* C16: a frame send_command wrote, with any single bit flipped in the bytes
\* from the board id through the trailing 0x00, fails check_checksum; when
\* the flipped bit leaves board id, address and length intact, read_response
\* raises CommunicationError for the checksum.
C16_XorDetectsSingleBit ==
    (pc = "done" /\ response /\ Len(written) >= 1
        /\ SingleBitFlipOf(rx, written[Len(written)])) =>
        /\ ~check_checksum(rx)
        /\ (DiffPositions(rx, written[Len(written)]) \subseteq 6..Len(rx)) =>
              /\ result.kind = "raise"
              /\ result.exc = "CommunicationError"
              /\ result.msg = "Checksum mismatch"

C16_Witness ==
    /\ pc = "done"
    /\ response
    /\ Len(written) = 1
    /\ Len(rx) = MAX_CHUNK_SIZE + 9
    /\ SingleBitFlipOf(rx, written[1])
    /\ rx[Len(rx) - 1] = 128
    /\ result.msg = "Checksum mismatch"

\* the call transmits address/code pairs: the command is SET_FBM_CODES_ADDR
\* (with or without the start flag) and the parameters are whole pairs
SendsPairs ==
    /\ Len(data) >= 1
    /\ data[1] \in {CMD_SET_FBM_CODES_ADDR,
                     Or(CMD_SET_FBM_CODES_ADDR, FLAG_START_IMMEDIATELY)}
    /\ (Len(data) - 1) % 2 = 0

\* the number of parameter bytes a frame carries (the first frame of a call
\* carries the command byte in front of them)
ParamBytesIn(f) ==
    IF ChunkField(f) = 1 THEN Len(FrameData(f)) - 1 ELSE Len(FrameData(f))

\* C22: when address/code pairs are transmitted, no frame boundary falls
\* between an address byte and its code byte: every frame carries whole
\* pairs only.
C22_PairsNeverSplit ==
    SendsPairs =>
        \A i \in 1..Len(written) : ParamBytesIn(written[i]) % 2 = 0

\* C30: a call with ack=False and response=False writes the frame of each
\* chunk exactly once and reads no status.
C30_FireAndForget ==
    (pc = "done" /\ ~ack /\ ~response /\ result.kind = "return") =>
        /\ statuses = <<>>
        /\ Len(written) = NumChunks
        /\ \A k \in 1..Len(written) : ChunkField(written[k]) = k

\* C18: when the port delivers no byte to a status read before its timeout,
\* the call ends with an error of the CommunicationError family; it neither
\* ends with another kind of error nor carries on as if acknowledged.
C18_StatusTimeoutTyped ==
    (Len(statuses) > 0 /\ statuses[Len(statuses)].reply = <<>>) =>
        /\ pc = "done"
        /\ result.kind = "raise"
        /\ result.exc \in {"CommunicationError", "BusyError", "NACKError"}

\* C19: a call with response=True that the device answers with the single
\* byte STATUS_BUSY waits and sends its request again; it does not fail on
\* the first busy reply.
C19_BusyRetriedOnRead ==
    (pc = "done" /\ response /\ rx = <<STATUS_BUSY>>) =>
        /\ sleeps >= 1
        /\ Len(written) >= NumChunks + 1

\* C20: read_response accepts a valid frame and returns its payload however
\* the port splits the frame across reads, the remaining bytes arriving on
\* later reads.
C20_PartialReadReassembly ==
    (pc = "done" /\ response /\ Len(written) >= 1 /\ rx = written[Len(written)]) =>
        /\ result.kind = "return"
        /\ result.payload = FrameData(rx)

\* C7: read_response of a controller with the same board id and address,
\* fed the frame send_command wrote for single-chunk data whole, returns exactly
\* the data bytes and consumes the whole frame.
C7_KroneFrameRoundTrip ==
    (pc = "done" /\ response /\ Len(written) = 1 /\ rx = written[1]
        /\ rx_caps = NoCaps) =>
        /\ result.kind = "return"
        /\ result.payload = data
        /\ result.consumed = written[1]

C7_Witness ==
    /\ pc = "done"
    /\ response
    /\ Len(written) = 1
    /\ rx = written[1]
    /\ rx_caps = NoCaps
    /\ Len(data) = MAX_CHUNK_SIZE
    /\ result.payload = data

\* C9: read_response returns a payload only if the start sequence is FF FF,
\* board id and address match and the trailing checksum is the XOR of the
\* bytes from the board id through the last payload byte; in every other
\* case it raises CommunicationError (BusyError and NACKError counted with it).
C9_MismatchNeverSwallowed ==
    (pc = "done" /\ response /\ Len(written) >= 1) =>
        IF result.kind = "return"
        THEN LET d == result.consumed
             IN  /\ Len(d) >= 6
                 /\ d[1] = 255 /\ d[2] = 255
                 /\ d[3] = BOARD_ID
                 /\ d[4] = address
                 /\ d[Len(d)] = XorFold(0, SubSeq(d, 3, Len(d) - 1))
        ELSE result.exc \in {"CommunicationError", "BusyError", "NACKError"}

(***************************************************************************)
(* Claims about MIS1Protocol                                               *)
(***************************************************************************)
\* C6: unescape(escape(p)) = p for every byte sequence p, the marker 0x10
\* and the reserved bytes included.
C6_EscapeRoundTrip ==
    codec.applied => codec.unescaped = codec.p

C6_Witness ==
    /\ codec.applied
    /\ codec.p = <<16, 3, 16>>
    /\ codec.escaped = <<16, 16, 16, 3, 16, 16>>

\* C8: read_response fed the telegram send_raw_telegram built returns the
\* start marker, the original payload, the end marker and the checksum byte,
\* and has read exactly the telegram (one checksum byte after the end marker
\* that stands outside an escape sequence).
C8_MIS1FrameRoundTrip ==
    (mis_pc = "done" /\ WrittenTelegram # <<>> /\ mis_rx = WrittenTelegram) =>
        /\ mis_result.kind = "return"
        /\ mis_result.response =
               <<2>> \o mis_data \o <<3, WrittenTelegram[Len(WrittenTelegram)]>>
        /\ WrittenTelegram[Len(WrittenTelegram)] = mis1_checksum(mis_data \o <<3>>)
        /\ mis_result.consumed = Len(mis_rx)

C8_Witness ==
    /\ mis_pc = "done"
    /\ WrittenTelegram # <<>>
    /\ mis_rx = WrittenTelegram
    /\ mis_data = <<3, 16, 2>>
    /\ mis_result.kind = "return"

\* C10: read_response returns a received STX..ETX frame (and, with ack,
\* acknowledges it) only if the frame's last byte is the checksum of its
\* unescaped payload and end marker.
C10_ChecksumChecked ==
    (mis_pc = "done" /\ mis_result.kind = "return" /\ Len(mis_result.response) > 1) =>
        LET r == mis_result.response
        IN  r[Len(r)] = mis1_checksum(SubSeq(r, 2, Len(r) - 1))

\* the position of the first start marker 0x02 in a stream, 0 if none
RECURSIVE FirstStart(_, _)
FirstStart(stream, i) ==
    IF i > Len(stream) THEN 0
    ELSE IF stream[i] = 2 THEN i
    ELSE FirstStart(stream, i + 1)

\* the payload a frame STX body ETX checksum carries
FramePayload(frame) == mis1_unescape(SubSeq(frame, 2, Len(frame) - 2))

\* a frame is well formed when it is the encoding of the payload it carries
WellFormedFrame(frame) ==
    /\ Len(frame) >= 3
    /\ frame = Drop(mis1_telegram(mis_address, FramePayload(frame)), 2)

\* the stream is bytes without 0x02 followed by exactly one well-formed frame
NoiseThenFrame(stream) ==
    /\ FirstStart(stream, 1) > 1
    /\ WellFormedFrame(Drop(stream, FirstStart(stream, 1) - 1))

ReturnsTheFrame(stream) ==
    LET frame == Drop(stream, FirstStart(stream, 1) - 1)
    IN  /\ mis_result.kind = "return"
        /\ mis_result.response =
               <<2>> \o FramePayload(frame) \o <<3, frame[Len(frame)]>>

\* C12: for any bytes without 0x02 followed by a well-formed frame,
\* read_response returns that frame: it neither fails nor returns a response
\* built from one of the leading bytes.
C12_LeadingNoiseSkipped ==
    (mis_pc = "done" /\ NoiseThenFrame(mis_rx)) => ReturnsTheFrame(mis_rx)

\* C12 as the code has it: the leading bytes are skipped unless the first of
\* them is 0x06 or 0x15, which read_response takes for the display's ACK or
\* NAK.
C12_LeadingNoiseSkippedAmended ==
    (mis_pc = "done" /\ NoiseThenFrame(mis_rx) /\ mis_rx[1] \notin {6, 21}) =>
        ReturnsTheFrame(mis_rx)

C12_Witness ==
    /\ mis_pc = "done"
    /\ NoiseThenFrame(mis_rx)
    /\ Take(mis_rx, 2) = <<16, 6>>
    /\ FirstStart(mis_rx, 1) = 5
    /\ mis_result.kind = "return"
    /\ Len(mis_result.response) = 6

\* whether unescape's escape_active is set when the input is exhausted
RECURSIVE EscapeActiveAfter(_, _)
EscapeActiveAfter(d, escape_active) ==
    IF d = <<>> THEN escape_active
    ELSE EscapeActiveAfter(Tail(d), ~escape_active /\ Head(d) = 16)

\* C13: unescape applied to a sequence that ends with an unpaired escape
\* marker 0x10 reports the input as malformed; it does not return a
\* silently truncated result.
C13_IncompleteEscapeReported ==
    (calc.op = "unescape" /\ EscapeActiveAfter(calc.arg, FALSE)) =>
        calc.kind = "raise"

\* out is p with 0x10 inserted before every byte of reserved and nowhere else
RECURSIVE IsEscapeOf(_, _, _)
IsEscapeOf(out, p, reserved) ==
    IF p = <<>> THEN out = <<>>
    ELSE IF Head(p) \in reserved
         THEN /\ Len(out) >= 2
              /\ out[1] = 16
              /\ out[2] = Head(p)
              /\ IsEscapeOf(Drop(out, 2), Tail(p), reserved)
         ELSE /\ Len(out) >= 1
              /\ out[1] = Head(p)
              /\ IsEscapeOf(Tail(out), Tail(p), reserved)

CountIn(p, reserved) == Cardinality({i \in 1..Len(p) : p[i] \in reserved})

\* C14: MIS1 escape inserts 0x10 before every byte in {02, 03, 04, 05, 10},
\* MIS2 escape before every byte in the same set plus 0x17, and nowhere else:
\* the output is as long as the input plus its number of reserved bytes.
C14_EscapeOutput ==
    /\ codec.applied =>
          /\ IsEscapeOf(codec.escaped, codec.p, {2, 3, 4, 5, 16})
          /\ Len(codec.escaped) = Len(codec.p) + CountIn(codec.p, {2, 3, 4, 5, 16})
    /\ calc.op = "escape2" =>
          /\ IsEscapeOf(calc.out, calc.arg, {2, 3, 4, 5, 16, 23})
          /\ Len(calc.out) = Len(calc.arg) + CountIn(calc.arg, {2, 3, 4, 5, 16, 23})

C14_Witness ==
    /\ codec.applied
    /\ codec.p = <<1, 2, 16>>
    /\ codec.escaped = <<1, 16, 2, 16, 16>>

\* C15: the last byte of the telegram send_raw_telegram writes, for MIS1 and
\* for MIS2, is the checksum of the unescaped payload followed by 0x03,
\* whichever bytes of the payload had to be escaped.
C15_ChecksumOverUnescaped ==
    WrittenTelegram # <<>> =>
        LET t == WrittenTelegram
        IN  IF mis_pc = "sent2"
            THEN /\ t[Len(t)] = mis2_checksum(mis_data \o <<3>>)
                 /\ SubSeq(t, 4, Len(t) - 2) = mis2_escape(mis_data)
            ELSE /\ t[Len(t)] = mis1_checksum(mis_data \o <<3>>)
                 /\ SubSeq(t, 4, Len(t) - 2) = mis1_escape(mis_data)

C15_Witness ==
    /\ mis_pc = "sent2"
    /\ mis_data = <<16, 23>>
    /\ WrittenTelegram = <<4, 129, 2, 16, 16, 16, 23, 3, 173>>

\* C17: for every payload and every bit 0..7 of any of its bytes, the MIS1
\* checksum of the payload with that bit flipped differs from the checksum
\* of the payload.
C17_AdditiveDetectsSingleBit ==
    calc.op = "checksum" => calc.sum # calc.sum_flipped

\* C17 as the code has it: the checksums of MIS1 and MIS2 differ for a
\* flipped bit 0..6; a flipped bit 7 changes the sum by 128 modulo 256, which
\* the forced high bit (| 0x80) hides, so the checksum stays the same.
C17_AdditiveDetectsLowBits ==
    calc.op = "checksum" =>
        IF calc.bit <= 6
        THEN /\ calc.sum # calc.sum_flipped
             /\ calc.sum2 # calc.sum2_flipped
        ELSE /\ calc.sum = calc.sum_flipped
             /\ calc.sum2 = calc.sum2_flipped

C17_Witness ==
    /\ calc.op = "checksum"
    /\ calc.arg = <<255, 0, 128>>
    /\ calc.pos = 2
    /\ calc.bit = 6
    /\ calc.flipped = <<255, 64, 128>>
    /\ calc.sum = 255
    /\ calc.sum_flipped = 191

\* C21: every call of read_response ends, with a response or with the
\* timeout failure, also when the line keeps delivering bytes none of which
\* is the start marker 0x02.
C21_ReadResponseEnds ==
    (reader.pc = "first") ~> (reader.pc = "done")

\* a caller's transaction is in flight: a frame of it is out and the call
\* has not ended
InFlight(t) ==
    \/ conc.pc[t] = "check_status"
    \/ conc.pc[t] = "write" /\ conc.retry[t] > 0

\* C23: two concurrent callers of send_command on one controller are
\* serialised: no caller's frame is written while the other's transaction
\* is in flight, and no status byte is consumed by a caller other than the
\* one whose frame it answers.
C23_NoOverlap ==
    /\ ~(InFlight(1) /\ InFlight(2))
    /\ ~conc.stolen

\* C24: make_lrc and wrap_telegram compute the XOR of the seed 0x7F and
\* exactly the covered bytes: covered bytes and checksum XOR to 0x7F, [0xAA]
\* gives 0xD5, and wrap_telegram returns the telegram, 0x0D and the checksum
\* of both as the last byte.
C24_XorSeedChecksum ==
    /\ fn.op = "make_lrc" =>
          /\ Len(fn.out) = 1
          /\ Xor(XorRange(fn.arg, 1, Len(fn.arg)), fn.out[1]) = 127
    /\ fn.op = "wrap_telegram" =>
          /\ Len(fn.out) = Len(fn.arg) + 2
          /\ SubSeq(fn.out, 1, Len(fn.arg)) = fn.arg
          /\ fn.out[Len(fn.arg) + 1] = 13
          /\ XorRange(fn.out, 1, Len(fn.out)) = 127

C24_Witness ==
    /\ fn.op = "make_lrc"
    /\ fn.arg = <<170>>
    /\ fn.out = <<213>>

\* C26: for every integer v in 0..255, vdv_hex applied to the string
\* vdv_hex(v) returns v.
C26_VdvHexRoundTrip ==
    fn.op = "vdv_hex" => fn.back = fn.arg[1]

\* v with its high bit set, by arithmetic on a byte
HighBitForced(v) == IF v >= 128 THEN v ELSE v + 128

\* C25: MIS1Protocol.checksum is ((sum of the bytes) mod 256) with the high
\* bit forced, MIS2Protocol.checksum ((sum of the bytes + number of bytes)
\* mod 256) with the high bit forced; both lie in 0x80..0xFF, so neither is
\* a reserved control byte or a 7-bit data byte.
C25_HighBitForced ==
    calc.op = "checksum" =>
        /\ calc.sum = HighBitForced(Sum(calc.arg) % 256)
        /\ calc.sum2 = HighBitForced((Sum(calc.arg) + Len(calc.arg)) % 256)
        /\ calc.sum \in 128..255
        /\ calc.sum2 \in 128..255
        /\ {calc.sum, calc.sum2} \cap ({2, 3, 4, 5, 16, 23} \cup (0..127)) = {}

C25_Witness ==
    /\ calc.op = "checksum"
    /\ calc.arg = <<3, 0>>
    /\ calc.sum = 131
    /\ calc.sum2 = 133

(***************************************************************************)
(* Claims about Krone8200Display                                           *)
(***************************************************************************)
\* what the station sent, without the parity bits
Stripped(stream) == [i \in 1..Len(stream) |-> stream[i] % 128]

IsWabtReply(stream) == Stripped(stream) = <<K82_PAD>> \o WABT

IsAckReply(stream) == Stripped(stream) \in {<<K82_PAD>> \o ACK0, <<K82_PAD>> \o ACK1}

LastWritten == K82Written[Len(K82Written)]

MessageWritten ==
    \E i \in 1..Len(K82Written) : K82Written[i] = message_frame(k82.message)

\* C27: read_response_and_handle_wait re-sends the enquiry at most twice; on
\* the third WABT in a row it sends EOT and raises CommunicationError;
\* every read before the last one of a call was answered WABT, and a
\* response it returns is the first that is not WABT.
C27_WaitBounded ==
    /\ k82.wait_count <= 3
    /\ k82.resent <= 2
    /\ Len(k82.reads) <= 3
    /\ \A i \in 1..(Len(k82.reads) - 1) : IsWabtReply(k82.reads[i])
    /\ (Len(k82.reads) = 3 /\ IsWabtReply(k82.reads[3])) =>
          /\ k82.pc = "done"
          /\ k82.result.kind = "raise"
          /\ k82.result.msg = "Maximum wait retries exceeded"
          /\ LastWritten = end_comm
    /\ (k82.pc = "done" /\ k82.result.kind = "response") =>
          /\ ~IsWabtReply(k82.reads[Len(k82.reads)])
          /\ k82.result.response = Tail(Stripped(k82.reads[Len(k82.reads)]))

C27_Witness ==
    /\ k82.pc = "done"
    /\ k82.phase = "message"
    /\ Len(k82.reads) = 3
    /\ IsWabtReply(k82.reads[3])
    /\ k82.resent = 2
    /\ k82.result.kind = "raise"

\* the message frame is written only right after a read that brought ACK0
\* or ACK1, and True is returned only after the message was written and
\* answered with ACK0 or ACK1, EOT being the last frame written
MessageAfterAck ==
    /\ \A i \in 1..Len(k82.log) :
          (k82.log[i].op = "write" /\ k82.log[i].bytes = message_frame(k82.message)) =>
              /\ i > 1
              /\ k82.log[i - 1].op = "read"
              /\ IsAckReply(k82.log[i - 1].bytes)
    /\ k82.result.kind = "true" =>
          /\ MessageWritten
          /\ k82.log[Len(k82.log)] = [op |-> "write", bytes |-> end_comm]
          /\ k82.log[Len(k82.log) - 1].op = "read"
          /\ IsAckReply(k82.log[Len(k82.log) - 1].bytes)

\* C28: send_command writes the message frame only after the enquiry was
\* answered with ACK0 or ACK1, and otherwise returns False without sending
\* the message; it returns True only if the message was answered with ACK0
\* or ACK1, and EOT is then the last frame written.
C28_EnquiryBeforeMessage ==
    k82.op = "send_command" =>
        /\ MessageAfterAck
        /\ (k82.pc = "done" /\ ~MessageWritten) => k82.result.kind = "false"

\* C28 as the code has it: when the enquiry is not answered with ACK0 or
\* ACK1 the call ends without the message being sent, by returning False
\* or, for no answer, a NAK, an answer without PAD or a third WABT, by
\* raising CommunicationError.
C28_EnquiryBeforeMessageAmended ==
    k82.op = "send_command" =>
        /\ MessageAfterAck
        /\ (k82.pc = "done" /\ ~MessageWritten) =>
              k82.result.kind \in {"false", "raise"}

C28_Witness ==
    /\ k82.op = "send_command"
    /\ k82.pc = "done"
    /\ k82.result.kind = "true"
    /\ k82.message = <<49, 50, 50, 82>>
    /\ Len(K82Written) = 4
    /\ K82Written[3] = message_frame(k82.message)

\* C29: whenever send_command has had its enquiry acknowledged, EOT is
\* written before it returns, be it True or False.
C29_SessionClosed ==
    (k82.op = "send_command" /\ k82.pc = "done" /\ MessageWritten
        /\ k82.result.kind \in {"true", "false"}) =>
        LastWritten = end_comm

(***************************************************************************)
(* Claims about MIS1Protocol: transmit request and RTS                     *)
(***************************************************************************)
PortWrites == SelectSeq(port_log, LAMBDA ev : ev.op = "write")

\* the call in progress is send_tx_request: read_response(ack=True) without
\* a telegram before it
TxRequestCall == mis_pc \in {"read", "done"} /\ mis_ack /\ WrittenTelegram = <<>>

\* a response read_response returned whole: a lone ACK or NAK, or a frame
\* from STX to ETX and the byte after it, that byte being the last one read
CompleteResponse ==
    LET r == mis_result.response
    IN  \/ r \in {<<6>>, <<21>>} /\ mis_result.consumed = 1
        \/ /\ Len(r) >= 3
           /\ r[1] = 2
           /\ r[Len(r) - 1] = 3
           /\ mis_rx[mis_result.consumed - 1] = 3
           /\ r[Len(r)] = mis_rx[mis_result.consumed]

\* C31: send_tx_request writes [0x04, 0x80|address, 0x05]; after a response
\* other than a lone NAK it writes the single byte 0x06 and nothing else,
\* the response having been read up to and including its checksum byte;
\* after a NAK or without a response it writes nothing further.
C31_AckPolicy ==
    TxRequestCall =>
        /\ Len(PortWrites) >= 1
        /\ PortWrites[1].bytes = <<4, 128 + mis_address, 5>>
        /\ mis_pc = "read" => Len(PortWrites) = 1
        /\ mis_pc = "done" =>
              IF mis_result.kind = "return" /\ mis_result.response # <<21>>
              THEN /\ Len(PortWrites) = 2
                   /\ PortWrites[2].bytes = <<6>>
                   /\ CompleteResponse
              ELSE Len(PortWrites) = 1

C31_Witness ==
    /\ TxRequestCall
    /\ mis_pc = "done"
    /\ mis_result.kind = "return"
    /\ Len(mis_result.response) > 3
    /\ Len(PortWrites) = 2
    /\ PortWrites[2].bytes = <<6>>

\* C32: with use_rts, MIS1Protocol.send_raw_data raises RTS right before
\* each write, writes with RTS raised and drops RTS right after it, so RTS
\* is low whenever send_raw_data has finished; without use_rts RTS is never
\* set.
C32_RtsBrackets ==
    mis_pc # "sent2" =>
        IF use_rts
        THEN /\ \A i \in 1..Len(port_log) :
                  /\ port_log[i].op = "write" =>
                        /\ port_log[i].level = 1
                        /\ i > 1
                        /\ port_log[i - 1] = PortEvent("setRTS", <<>>, 1)
                        /\ i < Len(port_log)
                        /\ port_log[i + 1] = PortEvent("setRTS", <<>>, 0)
                  /\ port_log[i] = PortEvent("setRTS", <<>>, 1) =>
                        /\ i < Len(port_log)
                        /\ port_log[i + 1].op = "write"
             /\ port_log # <<>> => port_log[Len(port_log)].level = 0
        ELSE \A i \in 1..Len(port_log) : port_log[i].op = "write"

C32_Witness ==
    /\ use_rts
    /\ mis_pc = "done"
    /\ Len(port_log) = 6
    /\ port_log[5] = PortEvent("write", <<6>>, 1)

\* C33: an error reply frame (code byte 0x8C) carrying a code of ERROR_CODES
\* that read_response returned makes check_error raise DisplayError naming
\* that code.
C33_ErrorCodeFaithful ==
    fn.op = "check_error" =>
        fn.back = [kind |-> "DisplayError", code |-> fn.arg[4]]

\* the decoding the claim gives: a byte with bit 7 set and the value after
\* it stand for ((byte AND 0x7F) + 1) copies of the value, any other byte
\* for itself
RECURSIVE RleDecode(_, _)
RleDecode(enc, i) ==
    IF i > Len(enc) THEN <<>>
    ELSE IF enc[i] >= 128 /\ i < Len(enc)
    THEN [j \in 1..((enc[i] % 128) + 1) |-> enc[i + 1]] \o RleDecode(enc, i + 2)
    ELSE <<enc[i]>> \o RleDecode(enc, i + 1)

\* C34: decoding the output of _rle gives back the input list, for every
\* list of 7-bit codes, also with runs of more than 128 equal codes.
C34_RleLossless ==
    fn.op = "_rle" => RleDecode(fn.out, 1) = fn.arg

(***************************************************************************)
(* Claims about MigraTCP                                                   *)
(***************************************************************************)
\* the payload between the six header bytes and the three trailer bytes
TelegramPayload(t) == SubSeq(t, 7, Len(t) - 3)

\* what the commands queued so far should have put into the queue
ExpectedQueue(calls) ==
    [i \in 1..Len(calls) |->
        (IF calls[i][2] THEN <<27>> ELSE <<31>>) \o calls[i][1]]

QueuedSilently ==
    /\ (migra.last.op = "send_command" /\ migra.last.enabled) =>
          /\ Len(migra.sent) = migra.last.nsent
          /\ migra.last.result = "None"
    /\ migra.command_queue = ExpectedQueue(migra.calls)

OneTelegramSent ==
    /\ Len(migra.sent) = migra.last.nsent + 1
    /\ TelegramPayload(migra.sent[Len(migra.sent)]) = Join(migra.last.queue)

FlushedQueue == migra.last.op = "send_command_queue" /\ migra.last.enabled

\* C35: in queue mode send_command sends nothing and returns no response,
\* and send_command_queue then sends exactly one telegram whose payload is
\* the queued payloads joined in call order.
C35_QueueBatches ==
    /\ QueuedSilently
    /\ FlushedQueue => OneTelegramSent

\* C35 as the code has it: send_command_queue sends that one telegram when
\* the joined payload has at most 230 bytes and the socket takes it; a longer
\* payload sends nothing and raises ValueError.
C35_QueueBatchesAmended ==
    /\ QueuedSilently
    /\ FlushedQueue =>
          IF Len(Join(migra.last.queue)) > 230
          THEN Len(migra.sent) = migra.last.nsent /\ migra.last.result = "ValueError"
          ELSE \/ OneTelegramSent
               \/ Len(migra.sent) = migra.last.nsent /\ migra.last.result = "OSError"

C35_Witness ==
    /\ FlushedQueue
    /\ migra.last.queue = << <<27, 67, 76>>, <<31, 67, 76>> >>
    /\ migra.last.result = "response"
    /\ Len(migra.sent) = 1
    /\ TelegramPayload(migra.sent[1]) = <<27, 67, 76, 31, 67, 76>>

\* C36: after send_command_queue has returned or raised, queue mode is off
\* and the queue is empty; outside queue mode send_command sends its
\* telegram at once; the queue holds only commands queued since the last
\* send_command_queue, so none is sent twice.
C36_QueueModeEnds ==
    /\ migra.last.op = "send_command_queue" =>
          /\ ~migra.command_queue_enabled
          /\ migra.command_queue = <<>>
    /\ ~migra.command_queue_enabled => migra.command_queue = <<>>
    /\ migra.command_queue = ExpectedQueue(migra.calls)
    /\ (migra.last.op = "send_command" /\ ~migra.last.enabled) =>
          \/ /\ Len(migra.sent) = migra.last.nsent + 1
             /\ TelegramPayload(migra.sent[Len(migra.sent)]) = migra.last.payload
          \/ /\ Len(migra.sent) = migra.last.nsent
             /\ migra.last.result = "OSError"

C36_Witness ==
    /\ migra.last.op = "send_command_queue"
    /\ migra.last.result = "ValueError"
    /\ Len(migra.last.queue) = 2
    /\ Len(migra.sent) = 0
    /\ migra.command_queue = <<>>

(***************************************************************************)
(* Claims about MONOProtocol and OmegaRS485Controller                      *)
(***************************************************************************)
\* 0x7D 0x5E becomes 0x7E and 0x7D 0x5D becomes 0x7D, from left to right
RECURSIVE MonoUnescape(_)
MonoUnescape(d) ==
    IF d = <<>> THEN <<>>
    ELSE IF Len(d) >= 2 /\ d[1] = 125 /\ d[2] = 94 THEN <<126>> \o MonoUnescape(Tail(Tail(d)))
    ELSE IF Len(d) >= 2 /\ d[1] = 125 /\ d[2] = 93 THEN <<125>> \o MonoUnescape(Tail(Tail(d)))
    ELSE <<Head(d)>> \o MonoUnescape(Tail(d))

\* C37: the output of prepare_frame has 0x7E at its first and last position
\* and nowhere else, and undoing the two escape pairs between the delimiters
\* gives back the frame.
C37_MonoDelimiting ==
    fn.op = "prepare_frame" =>
        /\ Len(fn.out) >= 2
        /\ \A i \in 1..Len(fn.out) : (fn.out[i] = 126) <=> (i \in {1, Len(fn.out)})
        /\ MonoUnescape(SubSeq(fn.out, 2, Len(fn.out) - 1)) = fn.arg

C37_Witness ==
    /\ fn.op = "prepare_frame"
    /\ fn.arg = <<126, 125, 94>>
    /\ fn.out = <<126, 125, 94, 125, 93, 94, 126>>

DistinctAddresses(module_data) ==
    \A i, j \in 1..Len(module_data) :
        i # j => module_data[i][1] # module_data[j][1]

\* C38: for module data with pairwise distinct addresses d_set_module_data
\* issues one set_position(start_address, positions) per maximal run of
\* consecutive addresses, in ascending order, and every (address, position)
\* of the input is sent exactly once, at index address - start_address of
\* its block.
C38_ContiguousBlocks ==
    (fn.op = "d_set_module_data" /\ DistinctAddresses(fn.arg)) =>
        LET calls == fn.out
            Covers(k, a) == calls[k][1] <= a /\ a < calls[k][1] + Len(calls[k][2])
        IN  /\ \A k \in 1..Len(calls) : Len(calls[k][2]) >= 1
            /\ \A k \in 1..(Len(calls) - 1) :
                  calls[k + 1][1] > calls[k][1] + Len(calls[k][2])
            /\ \A i \in 1..Len(fn.arg) :
                  \E k \in 1..Len(calls) :
                      /\ Covers(k, fn.arg[i][1])
                      /\ calls[k][2][fn.arg[i][1] - calls[k][1] + 1] = fn.arg[i][2]
            /\ \A k \in 1..Len(calls) :
                  \A a \in calls[k][1]..(calls[k][1] + Len(calls[k][2]) - 1) :
                      \E i \in 1..Len(fn.arg) : fn.arg[i][1] = a
            /\ \A k \in 1..Len(calls) :
                  fn.back[k] = <<255, 192, calls[k][1]>> \o calls[k][2]

C38_Witness ==
    /\ fn.op = "d_set_module_data"
    /\ fn.arg = << <<5, 7>>, <<2, 0>>, <<1, 7>> >>
    /\ fn.out = << <<1, <<7, 0>> >>, <<5, <<7>> >> >>

(***************************************************************************)
(* Claims about Krone9000FBK.set_fbm_value_table                           *)
(***************************************************************************)
\* the smallest number of tries that is at least 5.0 / port.timeout
PollBound == CeilDiv(POLL_TENTHS, fbk.timeout)

\* C39: after the table was sent, set_fbm_value_table reads single bytes at
\* most ceil(5.0 / port.timeout) times; it returns the value of the first
\* byte that arrives and raises CommunicationError when none arrived within
\* that many reads.
C39_BoundedPoll ==
    fbk.pc \in {"poll", "done"} /\ fbk.result.exc # "send_command" =>
        /\ Len(fbk.reads) <= PollBound
        /\ fbk.tries = Len(fbk.reads)
        /\ \A i \in 1..(Len(fbk.reads) - 1) : fbk.reads[i] = NoByte
        /\ fbk.pc = "poll" => \A i \in 1..Len(fbk.reads) : fbk.reads[i] = NoByte
        /\ (fbk.pc = "done" /\ fbk.result.kind = "return") =>
              /\ fbk.reads # <<>>
              /\ fbk.reads[Len(fbk.reads)] # NoByte
              /\ fbk.result.value = fbk.reads[Len(fbk.reads)]
        /\ (fbk.pc = "done" /\ fbk.result.kind = "raise") =>
              /\ fbk.result.exc = "CommunicationError"
              /\ Len(fbk.reads) = PollBound
              /\ \A i \in 1..Len(fbk.reads) : fbk.reads[i] = NoByte

C39_Witness ==
    /\ fbk.pc = "done"
    /\ fbk.timeout = 30
    /\ fbk.result.kind = "raise"
    /\ fbk.result.exc = "CommunicationError"
    /\ Len(fbk.reads) = 2

====
